---- MODULE Spec2Model ----
(***************************************************************************)
(* Host functions of the smart-contract engine (packages/smart/smart_p.go) *)
(* and the signable form of the transaction envelope                       *)
(* (packages/utils/tx/smart.go).                                           *)
(*                                                                         *)
(* The state is the call context sc of the transaction, the relational     *)
(* store db, the syspar cache, the rollback journal, the VM's contracts vm *)
(* and the language cache lang; calls counts the host calls made and last  *)
(* records the latest call with its arguments and its result.              *)
(*                                                                         *)
(*   Spec         UpdateSysParam and DBUpdateExt                           *)
(*   SpecAdmin    CreateEcosystem, EditEcosysName, CreateLanguage,         *)
(*                EditLanguage, Activate, Deactivate, RollbackContract     *)
(*   SpecContracts  RollbackContract among contracts the VM compiles       *)
(*   SpecSubstr   Substr                                                   *)
(*   SpecForSign  SmartContract.ForSign                                    *)
(*   SpecSign     CheckSignature                                           *)
(*   SpecCost     getCostP                                                 *)
(*                                                                         *)
(* Strings are TLA+ strings; they are taken apart with Len and SubSeq and  *)
(* put together with \o, so parsing and formatting are computed character  *)
(* by character.  int64 is a two's complement integer of IntBits bits.     *)
(* A call of the store that can fail does so when the call's fault         *)
(* argument names it.                                                      *)
(***************************************************************************)
EXTENDS Integers, Sequences, FiniteSets, TLC

VARIABLES sc, db, syspar, journal, vm, lang, calls, last

vars == <<sc, db, syspar, journal, vm, lang, calls, last>>

(***************************************************************************)
(* Bounds of the model.                                                    *)
(***************************************************************************)
\* width of the model's int64
IntBits == 24
\* host calls made by one transaction
MaxCalls == 1

\* the contracts compiled and rolled back in a run of the VM
MaxContractCalls == 4

MaxInt64 == 2 ^ (IntBits - 1) - 1
MinInt64 == 0 - 2 ^ (IntBits - 1)
MaxUint64 == 2 ^ IntBits - 1

(***************************************************************************)
(* Strings.                                                                *)
(***************************************************************************)
\* s[i:j] with 1-based inclusive bounds, "" when the range leaves the string
Sub(s, i, j) == IF i >= 1 /\ i <= j /\ j <= Len(s) THEN SubSeq(s, i, j) ELSE ""

Char(s, i) == Sub(s, i, i)

HasPrefix(s, p) == Len(p) <= Len(s) /\ Sub(s, 1, Len(p)) = p

Contains(s, sub) ==
    \/ sub = ""
    \/ \E i \in 1..Len(s) : i + Len(sub) - 1 <= Len(s) /\ Sub(s, i, i + Len(sub) - 1) = sub

\* index of the first occurrence of the one-character string c at or after i, 0 if none
IndexFrom(s, c, i) ==
    IF \E k \in i..Len(s) : SubSeq(s, k, k) = c
    THEN CHOOSE k \in i..Len(s) : SubSeq(s, k, k) = c /\ \A m \in i..(k - 1) : SubSeq(s, m, m) # c
    ELSE 0

\* strings.Split(s, sep) for a one-character separator
RECURSIVE SplitFrom(_, _, _)
SplitFrom(s, sep, i) ==
    CHOOSE parts \in {IF j = 0 THEN <<Sub(s, i, Len(s))>>
                      ELSE <<Sub(s, i, j - 1)>> \o SplitFrom(s, sep, j + 1) :
                      j \in {IndexFrom(s, sep, i)}} : TRUE

Split(s, sep) == SplitFrom(s, sep, 1)

\* the strings joined by single commas
RECURSIVE JoinCommas(_)
JoinCommas(fields) ==
    IF Len(fields) = 0 THEN ""
    ELSE IF Len(fields) = 1 THEN fields[1]
    ELSE fields[1] \o "," \o JoinCommas(Tail(fields))

Digits == "0123456789"

IsDigit(c) == \E d \in 1..10 : SubSeq(Digits, d, d) = c

DigitVal(c) == (CHOOSE d \in 1..10 : SubSeq(Digits, d, d) = c) - 1

(***************************************************************************)
(* converter.StrToInt64 is strconv.ParseInt(s, 10, 64) with the error      *)
(* dropped: 0 on a syntax error, the nearest bound on a range error.       *)
(* converter.Int64ToStr is strconv.FormatInt(n, 10).                       *)
(***************************************************************************)
\* strconv.ParseUint over s[i..]: the digits are read left to right, the first
\* character that is no digit is a syntax error, the first overflow a range error
RECURSIVE ParseUintFrom(_, _, _)
ParseUintFrom(s, i, acc) ==
    IF i > Len(s) THEN [err |-> "nil", val |-> acc]
    ELSE IF ~IsDigit(SubSeq(s, i, i)) THEN [err |-> "syntax", val |-> 0]
    ELSE CHOOSE r \in {IF n > MaxUint64 THEN [err |-> "range", val |-> MaxUint64]
                       ELSE ParseUintFrom(s, i + 1, n) :
                       n \in {acc * 10 + DigitVal(SubSeq(s, i, i))}} : TRUE

\* the sign applied to what ParseUint read
ParseIntSigned(neg, un) ==
    IF un.err = "syntax" THEN un
    ELSE IF ~neg /\ un.val > MaxInt64 THEN [err |-> "range", val |-> MaxInt64]
    ELSE IF neg /\ un.val > MaxInt64 + 1 THEN [err |-> "range", val |-> MinInt64]
    ELSE [err |-> un.err, val |-> IF neg THEN 0 - un.val ELSE un.val]

ParseInt(s) ==
    IF s = "" THEN [err |-> "syntax", val |-> 0]
    ELSE IF s \in {"+", "-"} THEN [err |-> "syntax", val |-> 0]
    ELSE ParseIntSigned(SubSeq(s, 1, 1) = "-",
                        ParseUintFrom(s, IF SubSeq(s, 1, 1) \in {"+", "-"} THEN 2 ELSE 1, 0))

StrToInt64(s) == ParseInt(s).val

RECURSIVE FormatUint(_)
FormatUint(n) ==
    IF n < 10 THEN SubSeq(Digits, n + 1, n + 1)
    ELSE FormatUint(n \div 10) \o SubSeq(Digits, (n % 10) + 1, (n % 10) + 1)

Int64ToStr(n) == IF n < 0 THEN "-" \o FormatUint(0 - n) ELSE FormatUint(n)

(***************************************************************************)
(* encoding/json.Unmarshal of a text into [][]string, for texts without    *)
(* white space and without escapes inside string literals.  JSON null      *)
(* leaves a slice nil and a string empty, without error; a number, an      *)
(* object or a malformed text is an error.                                 *)
(***************************************************************************)
JSONFail == [ok |-> FALSE, val |-> <<>>, next |-> 0]

\* one string of an inner array, s[i] being its first character
ParseString(s, i, close) ==
    IF Sub(s, i, i + 3) = "null" THEN [ok |-> TRUE, val |-> "", next |-> i + 4]
    ELSE IF Char(s, i) = "\"" /\ close # 0
    THEN [ok |-> TRUE, val |-> Sub(s, i + 1, close - 1), next |-> close + 1]
    ELSE JSONFail

\* the elements of an inner array, s[i] being the start of an element
RECURSIVE ParseStrings(_, _, _)
ParseStrings(s, i, acc) ==
    CHOOSE r \in {IF ~elem.ok THEN JSONFail
                  ELSE IF Char(s, elem.next) = ","
                  THEN ParseStrings(s, elem.next + 1, Append(acc, elem.val))
                  ELSE IF Char(s, elem.next) = "]"
                  THEN [ok |-> TRUE, val |-> Append(acc, elem.val), next |-> elem.next + 1]
                  ELSE JSONFail :
                  elem \in {ParseString(s, i, IndexFrom(s, "\"", i + 1))}} : TRUE

\* one element of the outer array: null or an array of strings
ParseStringArray(s, i) ==
    IF Sub(s, i, i + 3) = "null" THEN [ok |-> TRUE, val |-> <<>>, next |-> i + 4]
    ELSE IF Sub(s, i, i + 1) = "[]" THEN [ok |-> TRUE, val |-> <<>>, next |-> i + 2]
    ELSE IF Char(s, i) = "[" THEN ParseStrings(s, i + 1, <<>>)
    ELSE JSONFail

RECURSIVE ParseArrays(_, _, _)
ParseArrays(s, i, acc) ==
    CHOOSE r \in {IF ~elem.ok THEN JSONFail
                  ELSE IF Char(s, elem.next) = ","
                  THEN ParseArrays(s, elem.next + 1, Append(acc, elem.val))
                  ELSE IF Char(s, elem.next) = "]"
                  THEN [ok |-> TRUE, val |-> Append(acc, elem.val), next |-> elem.next + 1]
                  ELSE JSONFail :
                  elem \in {ParseStringArray(s, i)}} : TRUE

\* the whole text must be one value
UnmarshalDone(value, r) ==
    IF r.ok /\ r.next = Len(value) + 1 THEN [err |-> "nil", list |-> r.val]
    ELSE [err |-> "JSONUnmarshallError", list |-> <<>>]

\* json.Unmarshal([]byte(value), &list) with list [][]string
UnmarshalList(value) ==
    UnmarshalDone(value,
        IF value = "null" THEN [ok |-> TRUE, val |-> <<>>, next |-> 5]
        ELSE IF value = "[]" THEN [ok |-> TRUE, val |-> <<>>, next |-> 3]
        ELSE IF Char(value, 1) = "[" THEN ParseArrays(value, 2, <<>>)
        ELSE JSONFail)

\* json.Unmarshal([]byte(value), &fnodes) with fnodes []syspar.FullNode: the
\* number of nodes decoded, -1 on an error
OneFullNode == "[{\"tcp_address\":\"127.0.0.1:7078\",\"api_address\":\"http://127.0.0.1:7079\",\"key_id\":\"1\",\"public_key\":\"0a\"}]"

UnmarshalFullNodes(value) ==
    IF value \in {"null", "[]"} THEN 0
    ELSE IF value = OneFullNode THEN 1
    ELSE 0 - 1

(***************************************************************************)
(* The relational store: db[table][id] is a row, a function from column    *)
(* names to values.  1_system_parameters holds the system parameters;      *)
(* the other tables stand for the ecosystem's tables that contracts write. *)
(***************************************************************************)
SysParamTable == "1_system_parameters"

PriceNames == {"ecosystem_price", "contract_price", "column_price", "table_price",
               "menu_price", "page_price", "commission_size"}

MaxNames == {"max_block_size", "max_tx_size", "max_tx_count", "max_columns", "max_indexes",
             "max_block_user_tx", "max_fuel_tx", "max_fuel_block", "max_forsign_size"}

OnePair == "[[\"1\",\"2\"]]"

EvalFails == "ContractConditions(\"Missing\")"

\* the rows of 1_system_parameters at the start of a transaction: <<name, value, conditions>>
ParamRows ==
    << <<"gap_between_blocks", "2", "true">>,
       <<"rb_blocks_1", "60", "true">>,
       <<"number_of_nodes", "101", "true">>,
       <<"ecosystem_price", "1000", "true">>,
       <<"commission_size", "3", "true">>,
       <<"max_block_size", "64", "true">>,
       <<"max_forsign_size", "1000", "">>,
       <<"max_indexes", "5", "false">>,
       <<"max_columns", "50", EvalFails>>,
       <<"extend_cost_sha256", "50", "true">>,
       <<"fuel_rate", OnePair, "true">>,
       <<"commission_wallet", OnePair, "true">>,
       <<"full_nodes", OneFullNode, "true">>,
       <<"default_ecosystem_page", "P(hello)", "true">> >>

InitDB ==
    [t \in {SysParamTable, "1_keys", "1_members", "1_reports_daily", "1_ecosystems",
            "1_parameters", "1_languages"} |->
        CASE t = SysParamTable ->
               [id \in {Int64ToStr(i) : i \in 1..Len(ParamRows)} |->
                   [id |-> id, name |-> ParamRows[StrToInt64(id)][1],
                    value |-> ParamRows[StrToInt64(id)][2],
                    conditions |-> ParamRows[StrToInt64(id)][3]]]
          [] t = "1_keys" -> [id \in {"1"} |-> [id |-> "1", amount |-> "5000", pub |-> "0a"]]
          [] t = "1_members" -> [id \in {"1"} |-> [id |-> "1", amount |-> "0", pub |-> "0b"]]
          [] t = "1_reports_daily" -> [id \in {"1"} |-> [id |-> "1", amount |-> "12", pub |-> "0c"]]
          [] t = "1_ecosystems" -> [id \in {"1"} |-> [id |-> "1", name |-> "platform"]]
          [] t = "1_parameters" ->
               [id \in {"1"} |-> [id |-> "1", name |-> "founder_account", value |-> "1"]]
          [] t = "1_languages" ->
               [id \in {"1"} |-> [id |-> "1", name |-> "hello", res |-> "{\"en\":\"Hello\"}",
                                  app_id |-> "1"]]]

\* the tables' and columns' write permissions, as their conditions evaluate for the caller
TableUpdateAllowed ==
    [t \in {"1_keys", "1_members", "1_reports_daily", "1_ecosystems", "1_languages"} |->
        t # "1_members"]

ColumnWriteAllowed == [c \in {"id", "amount", "pub", "name", "res", "app_id"} |-> c # "pub"]

\* syspar.SysUpdate: the cache is read again from 1_system_parameters
LoadSyspar(d) ==
    [n \in {d[SysParamTable][id]["name"] : id \in DOMAIN d[SysParamTable]} |->
        LET id == CHOOSE i \in DOMAIN d[SysParamTable] : d[SysParamTable][i]["name"] = n
        IN  d[SysParamTable][id]["value"]]

\* sc.EvalIf(cond): the stored condition evaluated for the caller
EvalIf(cond) ==
    CASE cond = "true" -> [err |-> FALSE, ret |-> TRUE]
      [] cond = "false" -> [err |-> FALSE, ret |-> FALSE]
      [] OTHER -> [err |-> TRUE, ret |-> FALSE]

\* CompileEval(conditions, 0)
CompileEval(conditions) ==
    IF conditions \in {"true", "false", EvalFails} THEN "nil" ELSE "CompileError"

\* the logRollback argument as it would be without the VDE test
LogRollbackBug(s) == s.Rollback

\* the logRollback argument of the writes
LogRollback(s) == ~s.VDE /\ s.Rollback

(***************************************************************************)
(* sc.selectiveLoggingAndUpd(fields, values, table, whereFields,           *)
(* whereValues, logRollback, mustExist): updates the row the where clause  *)
(* selects, or inserts one; with logRollback it appends one rollback       *)
(* record holding the previous values.                                     *)
(***************************************************************************)
GetNextID(d, table) == Cardinality(DOMAIN d[table]) + 1

NextID(d, table) == Int64ToStr(GetNextID(d, table))

Cols(fields) == {fields[k] : k \in 1..Len(fields)}

ValueOf(fields, values, c) == values[CHOOSE k \in 1..Len(fields) : fields[k] = c]

RollbackRecord(table, id, data) == [kind |-> "row", table |-> table, id |-> id, data |-> data]

WriteFailed(d, j, e) == [err |-> e, db |-> d, journal |-> j, id |-> ""]

InsertRow(d, j, fields, values, table, id, logRollback) ==
    [err |-> "nil",
     db |-> [d EXCEPT ![table] =
                [i \in DOMAIN d[table] \cup {id} |->
                    IF i = id
                    THEN [c \in Cols(fields) \cup {"id"} |->
                            IF c \in Cols(fields) THEN ValueOf(fields, values, c) ELSE id]
                    ELSE d[table][i]]],
     journal |-> IF logRollback THEN Append(j, RollbackRecord(table, id, <<>>)) ELSE j,
     id |-> id]

UpdateRow(d, j, fields, values, table, id, logRollback) ==
    IF ~(Cols(fields) \subseteq DOMAIN d[table][id]) THEN WriteFailed(d, j, "DBError")
    ELSE [err |-> "nil",
          db |-> [d EXCEPT ![table][id] =
                     [c \in DOMAIN d[table][id] |->
                         IF c \in Cols(fields) THEN ValueOf(fields, values, c) ELSE d[table][id][c]]],
          journal |-> IF logRollback
                      THEN Append(j, RollbackRecord(table, id, [c \in Cols(fields) |-> d[table][id][c]]))
                      ELSE j,
          id |-> id]

MatchingIds(d, table, whereField, whereValue) ==
    {id \in DOMAIN d[table] :
        whereField \in DOMAIN d[table][id] /\ d[table][id][whereField] = whereValue}

selectiveLoggingAndUpd(d, j, fields, values, table, whereField, whereValue, logRollback, mustExist, fail) ==
    IF fail \/ table \notin DOMAIN d \/ Len(fields) # Len(values) THEN WriteFailed(d, j, "DBError")
    ELSE CHOOSE r \in
            {IF ids = {}
             THEN IF mustExist THEN WriteFailed(d, j, "NotFound")
                  ELSE InsertRow(d, j, fields, values, table,
                                 IF "id" \in Cols(fields) THEN ValueOf(fields, values, "id")
                                 ELSE NextID(d, table),
                                 logRollback)
             ELSE UpdateRow(d, j, fields, values, table, CHOOSE i \in ids : TRUE, logRollback) :
             ids \in {MatchingIds(d, table, whereField, whereValue)}} : TRUE

(***************************************************************************)
(* UpdateSysParam(sc, name, value, conditions).                            *)
(***************************************************************************)
\* the ok flag as it would be with gap_between_blocks tested by ival >= 0
SysValueOkBug(name, ival) ==
    CASE name = "gap_between_blocks" -> ival >= 0 /\ ival < 86400
      [] name \in {"rb_blocks_1", "number_of_nodes"} -> ival > 0 /\ ival < 1000
      [] name \in PriceNames -> ival >= 0
      [] name \in MaxNames -> ival > 0
      [] name \in {"fuel_rate", "commission_wallet", "full_nodes"} -> FALSE
      [] OTHER -> HasPrefix(name, "extend_cost_") /\ ival >= 0

\* the ok flag the switch on the name computes from ival
SysValueOk(name, ival) ==
    CASE name = "gap_between_blocks" -> ival > 0 /\ ival < 86400
      [] name \in {"rb_blocks_1", "number_of_nodes"} -> ival > 0 /\ ival < 1000
      [] name \in PriceNames -> ival >= 0
      [] name \in MaxNames -> ival > 0
      [] name \in {"fuel_rate", "commission_wallet", "full_nodes"} -> FALSE
      [] OTHER -> HasPrefix(name, "extend_cost_") /\ ival >= 0

\* an item of the list that makes the loop leave the switch (break check)
BadPair(name, item) ==
    \/ Len(item) # 2
    \/ StrToInt64(item[1]) <= 0
    \/ name = "fuel_rate" /\ StrToInt64(item[2]) <= 0
    \/ name = "commission_wallet" /\ StrToInt64(item[2]) = 0

\* the checked flag the switch on the name computes, list being the unmarshalled value
SysValueChecked(name, value, list) ==
    CASE name \in {"fuel_rate", "commission_wallet"} -> \A k \in 1..Len(list) : ~BadPair(name, list[k])
      [] name = "full_nodes" -> UnmarshalFullNodes(value) > 0
      [] name = "gap_between_blocks" \/ name \in {"rb_blocks_1", "number_of_nodes"}
           \/ name \in PriceNames \/ name \in MaxNames -> FALSE
      [] OTHER -> ~HasPrefix(name, "extend_cost_")

\* the outcome of the block that validates a non-empty value, u being what
\* json.Unmarshal gave for fuel_rate and commission_wallet
CheckSysValueWith(name, value, ival, u) ==
    IF name \in {"fuel_rate", "commission_wallet"} /\ u.err # "nil" THEN "JSONUnmarshallError"
    ELSE IF ~SysValueChecked(name, value, u.list) /\ (~SysValueOk(name, ival) \/ Int64ToStr(ival) # value)
    THEN "ErrInvalidValue"
    ELSE "nil"

CheckSysValue(name, value) ==
    CheckSysValueWith(name, value, StrToInt64(value),
                      IF name \in {"fuel_rate", "commission_wallet"} THEN UnmarshalList(value)
                      ELSE [err |-> "nil", list |-> <<>>])

\* a call's outcome: the error, the store, journal and cache it leaves, sc.SysUpdate,
\* the number of selectiveLoggingAndUpd calls made and whether syspar.SysUpdate ran
SysParamKept(s, d, j, sp, e, upd) ==
    [err |-> e, db |-> d, journal |-> j, syspar |-> sp, SysUpdate |-> s.SysUpdate,
     upd |-> upd, refresh |-> FALSE]

SysParamFields(value, conditions) ==
    (IF Len(value) > 0 THEN <<"value">> ELSE <<>>) \o (IF Len(conditions) > 0 THEN <<"conditions">> ELSE <<>>)

SysParamValues(value, conditions) ==
    (IF Len(value) > 0 THEN <<value>> ELSE <<>>) \o (IF Len(conditions) > 0 THEN <<conditions>> ELSE <<>>)

\* after the write u: the refresh of the cache and the flag
UpdateSysParamWritten(s, d, j, sp, fault, u) ==
    IF u.err # "nil" THEN SysParamKept(s, d, j, sp, u.err, 1)
    ELSE IF fault = "refresh"
    THEN [err |-> "DBError", db |-> u.db, journal |-> u.journal, syspar |-> sp,
          SysUpdate |-> s.SysUpdate, upd |-> 1, refresh |-> TRUE]
    ELSE [err |-> "nil", db |-> u.db, journal |-> u.journal, syspar |-> LoadSyspar(u.db),
          SysUpdate |-> TRUE, upd |-> 1, refresh |-> TRUE]

\* UpdateSysParam as it would be if the write named both columns every time
UpdateSysParamAllowedBothColumns(s, d, j, sp, par, value, conditions, fault, chk) ==
    IF chk # "nil" THEN SysParamKept(s, d, j, sp, chk, 0)
    ELSE IF Len(conditions) > 0 /\ CompileEval(conditions) # "nil"
    THEN SysParamKept(s, d, j, sp, "CompileError", 0)
    ELSE IF Len(SysParamFields(value, conditions)) = 0 THEN SysParamKept(s, d, j, sp, "EmptyObject", 0)
    ELSE UpdateSysParamWritten(s, d, j, sp, fault,
            selectiveLoggingAndUpd(d, j, <<"value", "conditions">>, <<value, conditions>>,
                                   SysParamTable, "id", par["id"], LogRollback(s), FALSE, fault = "upd"))

\* after the authorization, chk being the outcome of the value's validation
UpdateSysParamAllowed(s, d, j, sp, par, value, conditions, fault, chk) ==
    IF chk # "nil" THEN SysParamKept(s, d, j, sp, chk, 0)
    ELSE IF Len(conditions) > 0 /\ CompileEval(conditions) # "nil"
    THEN SysParamKept(s, d, j, sp, "CompileError", 0)
    ELSE IF Len(SysParamFields(value, conditions)) = 0 THEN SysParamKept(s, d, j, sp, "EmptyObject", 0)
    ELSE UpdateSysParamWritten(s, d, j, sp, fault,
            selectiveLoggingAndUpd(d, j, SysParamFields(value, conditions),
                                   SysParamValues(value, conditions), SysParamTable, "id", par["id"],
                                   LogRollback(s), FALSE, fault = "upd"))

\* UpdateSysParam as it would be if the value were validated before the authorization
UpdateSysParamFoundValueFirst(s, d, j, sp, par, name, value, conditions, fault) ==
    IF Len(value) > 0 /\ CheckSysValue(name, value) # "nil"
    THEN SysParamKept(s, d, j, sp, CheckSysValue(name, value), 0)
    ELSE IF Len(par["conditions"]) > 0 /\ EvalIf(par["conditions"]).err
    THEN SysParamKept(s, d, j, sp, "EvalError", 0)
    ELSE IF Len(par["conditions"]) > 0 /\ ~EvalIf(par["conditions"]).ret
    THEN SysParamKept(s, d, j, sp, "AccessDenied", 0)
    ELSE UpdateSysParamAllowed(s, d, j, sp, par, value, conditions, fault, "nil")

\* with the parameter's row par: the authorization, then the rest
UpdateSysParamFound(s, d, j, sp, par, name, value, conditions, fault) ==
    IF Len(par["conditions"]) > 0 /\ EvalIf(par["conditions"]).err
    THEN SysParamKept(s, d, j, sp, "EvalError", 0)
    ELSE IF Len(par["conditions"]) > 0 /\ ~EvalIf(par["conditions"]).ret
    THEN SysParamKept(s, d, j, sp, "AccessDenied", 0)
    ELSE UpdateSysParamAllowed(s, d, j, sp, par, value, conditions, fault,
                               IF Len(value) > 0 THEN CheckSysValue(name, value) ELSE "nil")

UpdateSysParamRun(s, d, j, sp, name, value, conditions, fault) ==
    IF fault = "get" THEN SysParamKept(s, d, j, sp, "DBError", 0)
    ELSE CHOOSE r \in
            {IF ids = {} THEN SysParamKept(s, d, j, sp, "NotFound", 0)
             ELSE UpdateSysParamFound(s, d, j, sp, d[SysParamTable][CHOOSE id \in ids : TRUE],
                                      name, value, conditions, fault) :
             ids \in {MatchingIds(d, SysParamTable, "name", name)}} : TRUE

\* the values a call offers for a parameter
TestValues(name) ==
    CASE name = "gap_between_blocks" -> {"-1", "0", "1", "01", "+1", "86399", "86400", "abc", "99999999"}
      [] name \in {"rb_blocks_1", "number_of_nodes"} -> {"0", "1", "999", "1000"}
      [] name \in PriceNames -> {"-1", "0", "7", "7.5"}
      [] name \in MaxNames -> {"-1", "0", "1", "0x10"}
      [] name \in {"fuel_rate", "commission_wallet"} ->
           {"null", "[]", OnePair, "[[\"1\",\"2\"],[\"2\",\"5\"]]", "[[\"0\",\"2\"]]", "[[\"1\",\"0\"]]",
            "[[\"1\",\"-3\"]]", "[[\"1\"]]", "[[\"1\",\"2\"],null]", "[[1,2]]", "{\"1\":\"2\"}", "abc", "7"}
      [] name = "full_nodes" -> {"[]", OneFullNode, "abc"}
      [] HasPrefix(name, "extend_cost_") -> {"-1", "0", "5", "5 "}
      [] OTHER -> {"P(bye)", "0"}

ParamNames == {ParamRows[i][1] : i \in 1..Len(ParamRows)} \cup {"no_such_param"}

\* the calls a transaction makes: <<name, value, conditions, fault>>, fault being
\* the step at which the store fails
UpdateSysParamCalls ==
    UNION {{<<n, v, "", "none">> : v \in TestValues(n)} : n \in ParamNames}
      \cup {<<n, v, c, "none">> : n \in {"gap_between_blocks", "max_forsign_size", "max_indexes", "max_columns"},
                                  v \in {"", "1", "0"}, c \in {"", "false", "1+"}}
      \cup {<<"gap_between_blocks", "1", "", f>> : f \in {"get", "upd", "refresh"}}
      \cup {<<"max_indexes", "1", "", "get">>}

UpdateSysParam ==
    /\ calls < MaxCalls
    /\ \E in \in UpdateSysParamCalls :
         \E r \in {UpdateSysParamRun(sc, db, journal, syspar, in[1], in[2], in[3], in[4])} :
            /\ db' = r.db
            /\ journal' = r.journal
            /\ syspar' = r.syspar
            /\ sc' = [sc EXCEPT !.SysUpdate = r.SysUpdate]
            /\ last' = [op |-> "UpdateSysParam", name |-> in[1], value |-> in[2],
                        conditions |-> in[3], fault |-> in[4], err |-> r.err,
                        upd |-> r.upd, refresh |-> r.refresh]
    /\ calls' = calls + 1
    /\ UNCHANGED <<vm, lang>>

(***************************************************************************)
(* DBUpdateExt(sc, tblname, column, value, params, val...).                *)
(***************************************************************************)
\* getDefTableName: a name that starts with @ carries its ecosystem, any other
\* name gets the ecosystem of the transaction
getDefTableName(s, tblname) ==
    IF Char(tblname, 1) = "@" THEN Sub(tblname, 2, Len(tblname))
    ELSE Int64ToStr(s.EcosystemID) \o "_" \o tblname

\* sc.AccessTable(table, "update")
AccessTable(s, table) ==
    IF s.FullAccess THEN "nil"
    ELSE IF table \notin DOMAIN TableUpdateAllowed THEN "NotCustomTable"
    ELSE IF TableUpdateAllowed[table] THEN "nil"
    ELSE "AccessDenied"

\* sc.AccessColumns(table, &columns, true)
AccessColumns(s, table, columns) ==
    IF s.FullAccess THEN "nil"
    ELSE IF \A k \in 1..Len(columns) :
                columns[k] \in DOMAIN ColumnWriteAllowed /\ ColumnWriteAllowed[columns[k]]
    THEN "nil"
    ELSE "AccessDenied"

DBUpdateKept(d, j, e) == [err |-> e, db |-> d, journal |-> j, upd |-> 0]

DBUpdateWritten(u) == [err |-> u.err, db |-> u.db, journal |-> u.journal, upd |-> 1]

\* DBUpdateExt as it would be without the _reports_ rule
DBUpdateExtOnBug(s, d, j, tbl, columns, column, value, val, fault) ==
    IF AccessTable(s, tbl) # "nil" THEN DBUpdateKept(d, j, AccessTable(s, tbl))
    ELSE IF AccessColumns(s, tbl, columns) # "nil" THEN DBUpdateKept(d, j, AccessColumns(s, tbl, columns))
    ELSE DBUpdateWritten(selectiveLoggingAndUpd(d, j, columns, val, tbl, column, value,
                                                LogRollback(s), TRUE, fault = "upd"))

\* DBUpdateExt with the resolved table name and the columns of params
DBUpdateExtOn(s, d, j, tbl, columns, column, value, val, fault) ==
    IF AccessTable(s, tbl) # "nil" THEN DBUpdateKept(d, j, AccessTable(s, tbl))
    ELSE IF Contains(tbl, "_reports_") THEN DBUpdateKept(d, j, "AccessDeniedReport")
    ELSE IF AccessColumns(s, tbl, columns) # "nil" THEN DBUpdateKept(d, j, AccessColumns(s, tbl, columns))
    ELSE DBUpdateWritten(selectiveLoggingAndUpd(d, j, columns, val, tbl, column, value,
                                                LogRollback(s), TRUE, fault = "upd"))

DBUpdateExtRun(s, d, j, tblname, column, value, params, val, fault) ==
    DBUpdateExtOn(s, d, j, getDefTableName(s, tblname), Split(params, ","), column, value, val, fault)

\* the calls a transaction makes: <<tblname, value, params, val, fault>>
DBUpdateExtCalls ==
    {<<t, v, "amount", <<"7">>, f>> : t \in {"keys", "@1_keys", "members", "reports_daily", "@2_keys"},
                                     v \in {"1", "9"}, f \in {"none", "upd"}}
      \cup {<<t, "1", p, <<"7", "0d">>, "none">> : t \in {"keys", "reports_daily"}, p \in {"amount,pub", "pub,amount"}}
      \cup {<<"keys", "1", "pub", <<"0d">>, "none">>, <<"keys", "1", "amount", <<"7", "8">>, "none">>}

DBUpdateExt ==
    /\ calls < MaxCalls
    /\ \E in \in DBUpdateExtCalls :
         \E r \in {DBUpdateExtRun(sc, db, journal, in[1], "id", in[2], in[3], in[4], in[5])} :
            /\ db' = r.db
            /\ journal' = r.journal
            /\ last' = [op |-> "DBUpdateExt", tblname |-> in[1], value |-> in[2],
                        params |-> in[3], fault |-> in[5], err |-> r.err, upd |-> r.upd,
                        refresh |-> FALSE]
    /\ calls' = calls + 1
    /\ UNCHANGED <<sc, syspar, vm, lang>>

(***************************************************************************)
(* The state of a transaction's call context before its first host call.   *)
(***************************************************************************)
\* the contracts the VM holds: vm.Children lists the blocks, vm.Objects maps a
\* contract's name to its block, vm.Active is the Active flag of each block and
\* vm.ID the ContractInfo.ID of each compiled block, its place in Children when it
\* was compiled.  The blocks BlockIDs are compiled when the transaction starts,
\* the blocks NewBlocks are contracts a transaction may compile.
BlockIDs == {0, 1, 2}

NewBlocks == {3, 4}

BlockInfo(b) ==
    CASE b = 0 -> [Name |-> "@1Alpha", TableID |-> 1, StateID |-> 1]
      [] b = 1 -> [Name |-> "@1Beta", TableID |-> 2, StateID |-> 1]
      [] b = 2 -> [Name |-> "@2Gamma", TableID |-> 1, StateID |-> 2]
      [] b = 3 -> [Name |-> "@1Delta", TableID |-> 3, StateID |-> 1]
      [] b = 4 -> [Name |-> "@1Epsilon", TableID |-> 4, StateID |-> 1]

InitVM ==
    [Children |-> <<0, 1, 2>>,
     Objects |-> [n \in {BlockInfo(b).Name : b \in BlockIDs} |->
                    CHOOSE b \in BlockIDs : BlockInfo(b).Name = n],
     Active |-> [b \in BlockIDs \cup NewBlocks |-> b = 1],
     ID |-> [b \in BlockIDs |-> b]]

\* the language resources language.UpdateLang keeps in memory
InitLang == [k \in {<<1, 1, "hello">>} |-> "{\"en\":\"Hello\"}"]

InitCommon ==
    /\ db = InitDB
    /\ syspar = LoadSyspar(InitDB)
    /\ journal = <<>>
    /\ vm = InitVM
    /\ lang = InitLang
    /\ calls = 0
    /\ last = [op |-> "none"]

\* a transaction that writes system parameters and table rows
Init ==
    /\ \E r \in BOOLEAN, v \in BOOLEAN, f \in BOOLEAN :
         sc = [Rollback |-> r, VDE |-> v, FullAccess |-> f, SysUpdate |-> FALSE,
               TxContract |-> "@1UpdateSysParam", EcosystemID |-> 1]
    /\ InitCommon

Next == UpdateSysParam \/ DBUpdateExt

Spec == Init /\ [][Next]_vars

(***************************************************************************)
(* Properties of UpdateSysParam and DBUpdateExt, checked under Spec.       *)
(***************************************************************************)
\* the row of the parameter exists and its stored conditions let the caller write it
ParamWritable(d, name) ==
    \E id \in DOMAIN d[SysParamTable] :
        /\ d[SysParamTable][id]["name"] = name
        /\ d[SysParamTable][id]["conditions"] \in {"", "true"}

\* the value column of the parameter's row
ParamValue(d, name) ==
    d[SysParamTable][CHOOSE id \in DOMAIN d[SysParamTable] : d[SysParamTable][id]["name"] = name]["value"]

\* value is the canonical decimal rendering of an integer
IsDecimal(value) ==
    LET body == IF Char(value, 1) = "-" THEN Sub(value, 2, Len(value)) ELSE value
    IN  /\ Len(body) > 0
        /\ \A k \in 1..Len(body) : IsDigit(Char(body, k))
        /\ Char(body, 1) # "0" \/ value = "0"

IntegerParams ==
    {"gap_between_blocks", "rb_blocks_1", "number_of_nodes"} \cup PriceNames \cup MaxNames
        \cup {n \in ParamNames : HasPrefix(n, "extend_cost_")}

\* the domains of the integer parameters
InDomain(name, n) ==
    CASE name = "gap_between_blocks" -> 0 < n /\ n < 86400
      [] name \in {"rb_blocks_1", "number_of_nodes"} -> 0 < n /\ n < 1000
      [] name \in PriceNames -> n >= 0
      [] name \in MaxNames -> n > 0
      [] OTHER -> n >= 0

OutOfDomain(name, value) ==
    /\ name \in IntegerParams
    /\ value # ""
    /\ ~(IsDecimal(value) /\ Int64ToStr(StrToInt64(value)) = value /\ InDomain(name, StrToInt64(value)))

\* C1: a call of UpdateSysParam on a writable integer parameter with a non-empty
\* value outside the parameter's domain (or not the canonical decimal rendering of
\* an integer) returns ErrInvalidValue, makes no call of selectiveLoggingAndUpd,
\* appends no journal record, does not refresh syspar and leaves the store and
\* sc.SysUpdate as they were.
C1_OutOfDomainRejected ==
    [][(/\ last'.op = "UpdateSysParam"
        /\ last'.fault = "none"
        /\ ParamWritable(db, last'.name)
        /\ OutOfDomain(last'.name, last'.value))
       => (/\ last'.err = "ErrInvalidValue"
           /\ last'.upd = 0
           /\ ~last'.refresh
           /\ db' = db
           /\ journal' = journal
           /\ syspar' = syspar
           /\ sc' = sc)]_vars

\* gap_between_blocks "0" has been rejected
C1_Witness ==
    /\ last.op = "UpdateSysParam"
    /\ last.name = "gap_between_blocks"
    /\ last.value = "0"
    /\ last.conditions = ""
    /\ last.err = "ErrInvalidValue"
    /\ ParamValue(db, "gap_between_blocks") = "2"

\* access is denied to the call: the table, the reports rule or the columns refuse it
UpdateDenied(s, tblname, params) ==
    \/ AccessTable(s, getDefTableName(s, tblname)) # "nil"
    \/ Contains(getDefTableName(s, tblname), "_reports_")
    \/ AccessColumns(s, getDefTableName(s, tblname), Split(params, ",")) # "nil"

\* C3: a call of DBUpdateExt to which access is denied (by AccessTable, by the
\* _reports_ rule or by AccessColumns) returns an error without calling
\* selectiveLoggingAndUpd and leaves the store and the journal as they were,
\* whatever sc.Rollback, sc.VDE and sc.FullAccess are.
C3_DeniedWritesNothing ==
    [][(/\ last'.op = "DBUpdateExt"
        /\ UpdateDenied(sc, last'.tblname, last'.params))
       => (/\ last'.err # "nil"
           /\ last'.upd = 0
           /\ db' = db
           /\ journal' = journal)]_vars

\* a write to a reports table has been refused to a caller with full access and journaling
C3_Witness ==
    /\ last.op = "DBUpdateExt"
    /\ last.tblname = "reports_daily"
    /\ last.err = "AccessDeniedReport"
    /\ sc.FullAccess /\ sc.Rollback /\ ~sc.VDE
    /\ db = InitDB
    /\ journal = <<>>

\* the call reached selectiveLoggingAndUpd and the write succeeded
Wrote(l) == l.op \in {"UpdateSysParam", "DBUpdateExt"} /\ l.upd = 1 /\ (l.err = "nil" \/ l.refresh)

\* C4: a write that UpdateSysParam or DBUpdateExt makes through
\* selectiveLoggingAndUpd appends exactly one rollback record, for the row written,
\* when sc.Rollback is true and sc.VDE is false, and appends nothing in every other
\* combination of the two flags.
C4_OneRecordPerLoggedWrite ==
    [][Wrote(last')
       => IF sc.Rollback /\ ~sc.VDE
          THEN /\ Len(journal') = Len(journal) + 1
               /\ SubSeq(journal', 1, Len(journal)) = journal
               /\ journal'[Len(journal')].kind = "row"
          ELSE journal' = journal]_vars

\* a journaled write of a system parameter
C4_Witness ==
    /\ Wrote(last)
    /\ last.op = "UpdateSysParam"
    /\ sc.Rollback /\ ~sc.VDE
    /\ Len(journal) = 1
    /\ journal[1].table = SysParamTable

\* value is a JSON array of pairs with a positive first element and a positive
\* (fuel_rate) or non-zero (commission_wallet) rate
ValidPairs(name, value) ==
    /\ Char(value, 1) = "["
    /\ UnmarshalList(value).err = "nil"
    /\ \A k \in 1..Len(UnmarshalList(value).list) :
         LET item == UnmarshalList(value).list[k]
         IN  /\ Len(item) = 2
             /\ StrToInt64(item[1]) > 0
             /\ IF name = "fuel_rate" THEN StrToInt64(item[2]) > 0 ELSE StrToInt64(item[2]) # 0

\* C6: a write of fuel_rate or commission_wallet is accepted only if the value is
\* a JSON array of [ecosystem_id, rate] pairs with a strictly positive first
\* element and a strictly positive (fuel_rate) or non-zero (commission_wallet)
\* rate; any other non-empty value is rejected with ErrInvalidValue and the row is
\* not written.
C6_OnlyPairsAccepted ==
    [][(/\ last'.op = "UpdateSysParam"
        /\ last'.name \in {"fuel_rate", "commission_wallet"}
        /\ last'.fault = "none"
        /\ last'.value # ""
        /\ ParamWritable(db, last'.name)
        /\ ~ValidPairs(last'.name, last'.value))
       => (/\ last'.err = "ErrInvalidValue"
           /\ db' = db)]_vars

\* C6, the part the code does keep: a list that holds an item that is no valid
\* pair is rejected with ErrInvalidValue and the row is not written.
C6_BadPairRejected ==
    [][(/\ last'.op = "UpdateSysParam"
        /\ last'.name \in {"fuel_rate", "commission_wallet"}
        /\ last'.fault = "none"
        /\ ParamWritable(db, last'.name)
        /\ Char(last'.value, 1) = "["
        /\ UnmarshalList(last'.value).err = "nil"
        /\ ~ValidPairs(last'.name, last'.value))
       => (/\ last'.err = "ErrInvalidValue"
           /\ db' = db)]_vars

\* the JSON value null has been written into fuel_rate
C6_NullAccepted ==
    /\ last.op = "UpdateSysParam"
    /\ last.name = "fuel_rate"
    /\ last.value = "null"
    /\ last.err = "nil"
    /\ ParamValue(db, "fuel_rate") = "null"

(***************************************************************************)
(* The host functions only system contracts may call: CreateEcosystem,     *)
(* EditEcosysName, CreateLanguage, EditLanguage, Activate, Deactivate and  *)
(* RollbackContract.                                                       *)
(***************************************************************************)
\* accessContracts(sc, names...): the transaction's contract is @1 followed by one of the names
accessContracts(s, names) == \E n \in names : s.TxContract = "@1" \o n

\* DBInsert(sc, tblname, params, val...)
DBInsert(s, d, j, tblname, params, val, fail) ==
    IF AccessTable(s, getDefTableName(s, tblname)) # "nil"
    THEN WriteFailed(d, j, AccessTable(s, getDefTableName(s, tblname)))
    ELSE IF Len(val) = 0 THEN WriteFailed(d, j, "values are undefined")
    ELSE selectiveLoggingAndUpd(d, j, Split(params, ","), val, getDefTableName(s, tblname), "", "",
                                LogRollback(s), FALSE, fail)

\* DBUpdate(sc, tblname, id, params, val...)
DBUpdate(s, d, j, tblname, id, params, val, fail) ==
    IF AccessTable(s, getDefTableName(s, tblname)) # "nil"
    THEN WriteFailed(d, j, AccessTable(s, getDefTableName(s, tblname)))
    ELSE IF AccessColumns(s, getDefTableName(s, tblname), Split(params, ",")) # "nil"
    THEN WriteFailed(d, j, AccessColumns(s, getDefTableName(s, tblname), Split(params, ",")))
    ELSE selectiveLoggingAndUpd(d, j, Split(params, ","), val, getDefTableName(s, tblname), "id",
                                Int64ToStr(id), LogRollback(s), TRUE, fail)

\* SysRollback(sc, data): one record that tells the rollback what to undo in the VM
SysRollback(j, data) == Append(j, [kind |-> "sys", data |-> data])

\* SysParamString(name)
SysParamString(sp, name) == IF name \in DOMAIN sp THEN sp[name] ELSE ""

\* a function that would record its SysRollback hint in VDE too
SysRollbackAlways(s) == TRUE

\* whether the function records its SysRollback hint
SysRollbackWanted(s) == ~s.VDE

(***************************************************************************)
(* CreateEcosystem(sc, wallet, name).                                      *)
(***************************************************************************)
\* model.ExecSchemaEcosystem: the tables of the new ecosystem
ExecSchemaEcosystem(d, idStr) ==
    [t \in DOMAIN d \cup {idStr \o "_pages", idStr \o "_menu", idStr \o "_keys"} |->
        IF t \in DOMAIN d THEN d[t] ELSE <<>>]

\* sp.Get(sc.DbTransaction, "founder_account"): the value, "" when there is no row
FounderAccount(d) ==
    IF \E id \in DOMAIN d["1_parameters"] : d["1_parameters"][id]["name"] = "founder_account"
    THEN d["1_parameters"][CHOOSE id \in DOMAIN d["1_parameters"] :
                              d["1_parameters"][id]["name"] = "founder_account"]["value"]
    ELSE ""

\* DBSelect(sc, "@1_keys", "pub", wallet, ...): the pub column of the wallet's row
SelectPub(d, wallet) ==
    IF Int64ToStr(wallet) \in DOMAIN d["1_keys"] THEN d["1_keys"][Int64ToStr(wallet)]["pub"] ELSE ""

EcoResult(e, s, d, j, id) == [err |-> e, sc |-> s, db |-> d, journal |-> j, ret |-> id]

\* CreateEcosystem as it would be without the caller's test
CreateEcosystemCallerAny(s) == TRUE

\* the caller's test at the head of CreateEcosystem
CreateEcosystemCaller(s) == s.TxContract = "@1NewEcosystem"

\* the SysRollback hint, after the insert w into 1_ecosystems
CreateEcosystemHint(s, id, fault, w) ==
    IF w.err # "nil" THEN EcoResult(w.err, s, w.db, w.journal, 0)
    ELSE IF SysRollbackWanted(s)
    THEN IF fault = "sysrollback" THEN EcoResult("DBError", s, w.db, w.journal, 0)
         ELSE EcoResult("nil", s, w.db, SysRollback(w.journal, "{\"Type\": \"NewEcosystem\"}"), id)
    ELSE EcoResult("nil", s, w.db, w.journal, id)

\* the flags restored and the insert into 1_ecosystems, after the insert w of the founder's key
CreateEcosystemRegister(s, id, name, fault, w) ==
    IF w.err # "nil" THEN EcoResult(w.err, s, w.db, w.journal, 0)
    ELSE CreateEcosystemHint([s EXCEPT !.FullAccess = FALSE, !.Rollback = TRUE], id, fault,
            DBInsert([s EXCEPT !.FullAccess = FALSE, !.Rollback = TRUE], w.db, w.journal,
                     "@1_ecosystems", "id,name", <<Int64ToStr(id), name>>, fault = "ecosystems"))

\* the founder's key, after the insert w of the default menu
CreateEcosystemKeys(s, id, wallet, name, fault, w) ==
    IF w.err # "nil" THEN EcoResult(w.err, s, w.db, w.journal, 0)
    ELSE IF fault = "select" THEN EcoResult("DBError", s, w.db, w.journal, 0)
    ELSE CreateEcosystemRegister(s, id, name, fault,
            DBInsert(s, w.db, w.journal, "@" \o Int64ToStr(id) \o "_keys", "id,pub",
                     <<Int64ToStr(wallet), SelectPub(w.db, wallet)>>, fault = "keys"))

\* the default menu, after the insert w of the default page
CreateEcosystemMenu(s, sp, id, wallet, name, fault, w) ==
    IF w.err # "nil" THEN EcoResult(w.err, s, w.db, w.journal, 0)
    ELSE CreateEcosystemKeys(s, id, wallet, name, fault,
            DBInsert(s, w.db, w.journal, "@" \o Int64ToStr(id) \o "_menu", "id,name,value,title,conditions",
                     <<"1", "default_menu", SysParamString(sp, "default_ecosystem_menu"), "default",
                       "ContractConditions(\"MainCondition\")">>, fault = "menu"))

\* the bootstrap inserts, made with the journal off and the access checks bypassed
CreateEcosystemBootstrap(s, d, j, sp, id, wallet, name, fault) ==
    CreateEcosystemMenu(s, sp, id, wallet, name, fault,
        DBInsert(s, d, j, "@" \o Int64ToStr(id) \o "_pages", "id,name,value,menu,conditions",
                 <<"1", "default_page", SysParamString(sp, "default_ecosystem_page"), "default_menu",
                   "ContractConditions(\"MainCondition\")">>, fault = "pages"))

\* CreateEcosystem as it would be if it left sc.Rollback alone before the bootstrap inserts
CreateEcosystemRunJournaled(s, d, j, sp, wallet, name, fault) ==
    IF ~CreateEcosystemCaller(s)
    THEN EcoResult("CreateEcosystem can be only called from @1NewEcosystem", s, d, j, 0)
    ELSE IF fault = "get" THEN EcoResult("DBError", s, d, j, 0)
    ELSE IF fault = "nofounder" \/ Len(FounderAccount(d)) = 0 THEN EcoResult("ErrFounderAccount", s, d, j, 0)
    ELSE IF fault = "nextid" THEN EcoResult("DBError", s, d, j, 0)
    ELSE IF fault = "schema" THEN EcoResult("DBError", s, d, j, 0)
    ELSE IF fault = "load"
    THEN EcoResult("DBError", s, ExecSchemaEcosystem(d, NextID(d, "1_ecosystems")), j, 0)
    ELSE CreateEcosystemBootstrap([s EXCEPT !.FullAccess = TRUE],
                                  ExecSchemaEcosystem(d, NextID(d, "1_ecosystems")), j, sp,
                                  GetNextID(d, "1_ecosystems"), wallet, name, fault)

\* the lookups, the schema and the flags set for the bootstrap inserts
CreateEcosystemRun(s, d, j, sp, wallet, name, fault) ==
    IF ~CreateEcosystemCaller(s)
    THEN EcoResult("CreateEcosystem can be only called from @1NewEcosystem", s, d, j, 0)
    ELSE IF fault = "get" THEN EcoResult("DBError", s, d, j, 0)
    ELSE IF fault = "nofounder" \/ Len(FounderAccount(d)) = 0 THEN EcoResult("ErrFounderAccount", s, d, j, 0)
    ELSE IF fault = "nextid" THEN EcoResult("DBError", s, d, j, 0)
    ELSE IF fault = "schema" THEN EcoResult("DBError", s, d, j, 0)
    ELSE IF fault = "load"
    THEN EcoResult("DBError", s, ExecSchemaEcosystem(d, NextID(d, "1_ecosystems")), j, 0)
    ELSE CreateEcosystemBootstrap([s EXCEPT !.Rollback = FALSE, !.FullAccess = TRUE],
                                  ExecSchemaEcosystem(d, NextID(d, "1_ecosystems")), j, sp,
                                  GetNextID(d, "1_ecosystems"), wallet, name, fault)

\* the calls a transaction makes: <<wallet, fault>>
CreateEcosystemCalls ==
    {<<1, f>> : f \in {"none", "get", "nofounder", "nextid", "schema", "load", "pages", "menu", "select", "keys",
                      "ecosystems", "sysrollback"}}
        \cup {<<9, "none">>}

CreateEcosystem ==
    /\ calls < MaxCalls
    /\ \E in \in CreateEcosystemCalls :
         \E r \in {CreateEcosystemRun(sc, db, journal, syspar, in[1], "eco", in[2])} :
            /\ sc' = r.sc
            /\ db' = r.db
            /\ journal' = r.journal
            /\ last' = [op |-> "CreateEcosystem", wallet |-> in[1], fault |-> in[2],
                        err |-> r.err, ret |-> r.ret]
    /\ calls' = calls + 1
    /\ UNCHANGED <<syspar, vm, lang>>

(***************************************************************************)
(* EditEcosysName(sc, sysID, newName).                                     *)
(***************************************************************************)
EditEcosysNameRun(s, d, j, sysID, newName, fault) ==
    IF s.TxContract # "@1EditEcosystemName"
    THEN WriteFailed(d, j, "EditEcosystemName can be only called from @1EditEcosystemName")
    ELSE DBUpdate(s, d, j, "@1_ecosystems", sysID, "name", <<newName>>, fault = "upd")

EditEcosysName ==
    /\ calls < MaxCalls
    /\ \E in \in {<<1, "none">>, <<1, "upd">>, <<5, "none">>} :
         \E r \in {EditEcosysNameRun(sc, db, journal, in[1], "renamed", in[2])} :
            /\ db' = r.db
            /\ journal' = r.journal
            /\ last' = [op |-> "EditEcosysName", sysID |-> in[1], fault |-> in[2], err |-> r.err]
    /\ calls' = calls + 1
    /\ UNCHANGED <<sc, syspar, vm, lang>>

(***************************************************************************)
(* CreateLanguage(sc, name, trans, appID) and                              *)
(* EditLanguage(sc, id, name, trans, appID).                               *)
(***************************************************************************)
\* language.UpdateLang(state, appID, name, trans, vde)
UpdateLang(l, state, appID, name, trans) ==
    [k \in DOMAIN l \cup {<<state, appID, name>>} |->
        IF k = <<state, appID, name>> THEN trans ELSE l[k]]

LangResult(w, l) == [err |-> w.err, db |-> w.db, journal |-> w.journal, id |-> w.id, lang |-> l]

CreateLanguageRun(s, d, j, l, name, trans, appID, fault) ==
    IF ~accessContracts(s, {"NewLang", "NewLangJoint", "Import"})
    THEN LangResult(WriteFailed(d, j,
            "CreateLanguage can be only called from @1NewLang, @1NewLangJoint, @1Import"), l)
    ELSE CHOOSE r \in
            {LangResult(w, IF w.err # "nil" THEN l ELSE UpdateLang(l, s.EcosystemID, appID, name, trans)) :
             w \in {DBInsert(s, d, j, "@" \o Int64ToStr(s.EcosystemID) \o "_languages",
                             "name,res,app_id", <<name, trans, Int64ToStr(appID)>>, fault = "upd")}} : TRUE

EditLanguageRun(s, d, j, l, id, name, trans, appID, fault) ==
    IF ~accessContracts(s, {"EditLang", "EditLangJoint", "Import"})
    THEN LangResult(WriteFailed(d, j,
            "EditLanguage can be only called from @1EditLang, @1EditLangJoint and @1Import"), l)
    ELSE CHOOSE r \in
            {LangResult(w, IF w.err # "nil" THEN l ELSE UpdateLang(l, s.EcosystemID, appID, name, trans)) :
             w \in {DBUpdate(s, d, j, "@" \o Int64ToStr(s.EcosystemID) \o "_languages", id,
                             "name,res,app_id", <<name, trans, Int64ToStr(appID)>>, fault = "upd")}} : TRUE

CreateLanguage ==
    /\ calls < MaxCalls
    /\ \E in \in {<<"bye", "none">>, <<"bye", "upd">>} :
         \E r \in {CreateLanguageRun(sc, db, journal, lang, in[1], "{\"en\":\"Bye\"}", 1, in[2])} :
            /\ db' = r.db
            /\ journal' = r.journal
            /\ lang' = r.lang
            /\ last' = [op |-> "CreateLanguage", name |-> in[1], fault |-> in[2], err |-> r.err]
    /\ calls' = calls + 1
    /\ UNCHANGED <<sc, syspar, vm>>

EditLanguage ==
    /\ calls < MaxCalls
    /\ \E in \in {<<1, "none">>, <<1, "upd">>, <<7, "none">>} :
         \E r \in {EditLanguageRun(sc, db, journal, lang, in[1], "hello", "{\"en\":\"Hi\"}", 1, in[2])} :
            /\ db' = r.db
            /\ journal' = r.journal
            /\ lang' = r.lang
            /\ last' = [op |-> "EditLanguage", id |-> in[1], fault |-> in[2], err |-> r.err]
    /\ calls' = calls + 1
    /\ UNCHANGED <<sc, syspar, vm>>

(***************************************************************************)
(* Activate(sc, tblid, state) and Deactivate(sc, tblid, state).            *)
(***************************************************************************)
\* ActivateContract(tblid, state, active): the flag of the VM's contracts of that table and ecosystem
ActivateContract(v, tblid, state, active) ==
    [v EXCEPT !.Active =
        [b \in DOMAIN v.Active |->
            IF /\ \E k \in 1..Len(v.Children) : v.Children[k] = b
               /\ BlockInfo(b).TableID = tblid
               /\ BlockInfo(b).StateID = state
            THEN active
            ELSE v.Active[b]]]

\* fmt.Sprintf(`{"Type": "...", "Id": "%d", "State": "%d"}`, tblid, state)
ContractHint(type, tblid, state) ==
    "{\"Type\": \"" \o type \o "\", \"Id\": \"" \o Int64ToStr(tblid) \o "\", \"State\": \""
        \o Int64ToStr(state) \o "\"}"

VMResult(e, v, j) == [err |-> e, vm |-> v, journal |-> j]

ActivateRun(s, v, j, tblid, state, fault) ==
    IF ~accessContracts(s, {"ActivateContract", "DeactivateContract"})
    THEN VMResult("ActivateContract can be only called from @1ActivateContract or @1DeactivateContract",
                  v, j)
    ELSE IF SysRollbackWanted(s)
    THEN IF fault = "sysrollback" THEN VMResult("DBError", ActivateContract(v, tblid, state, TRUE), j)
         ELSE VMResult("nil", ActivateContract(v, tblid, state, TRUE),
                       SysRollback(j, ContractHint("ActivateContract", tblid, state)))
    ELSE VMResult("nil", ActivateContract(v, tblid, state, TRUE), j)

DeactivateRun(s, v, j, tblid, state, fault) ==
    IF ~accessContracts(s, {"ActivateContract", "DeactivateContract"})
    THEN VMResult("DeactivateContract can be only called from @1ActivateContract or @1DeactivateContract",
                  v, j)
    ELSE IF SysRollbackWanted(s)
    THEN IF fault = "sysrollback" THEN VMResult("DBError", ActivateContract(v, tblid, state, FALSE), j)
         ELSE VMResult("nil", ActivateContract(v, tblid, state, FALSE),
                       SysRollback(j, ContractHint("DeactivateContract", tblid, state)))
    ELSE VMResult("nil", ActivateContract(v, tblid, state, FALSE), j)

\* the calls a transaction makes: <<tblid, state, fault>>
ActivateCalls ==
    {<<1, 1, "none">>, <<2, 1, "none">>, <<1, 2, "none">>, <<4, 1, "none">>, <<1, 1, "sysrollback">>}

Activate ==
    /\ calls < MaxCalls
    /\ \E in \in ActivateCalls :
         \E r \in {ActivateRun(sc, vm, journal, in[1], in[2], in[3])} :
            /\ vm' = r.vm
            /\ journal' = r.journal
            /\ last' = [op |-> "Activate", tblid |-> in[1], state |-> in[2], fault |-> in[3],
                        err |-> r.err]
    /\ calls' = calls + 1
    /\ UNCHANGED <<sc, db, syspar, lang>>

Deactivate ==
    /\ calls < MaxCalls
    /\ \E in \in ActivateCalls :
         \E r \in {DeactivateRun(sc, vm, journal, in[1], in[2], in[3])} :
            /\ vm' = r.vm
            /\ journal' = r.journal
            /\ last' = [op |-> "Deactivate", tblid |-> in[1], state |-> in[2], fault |-> in[3],
                        err |-> r.err]
    /\ calls' = calls + 1
    /\ UNCHANGED <<sc, db, syspar, lang>>

(***************************************************************************)
(* RollbackContract(sc, name).                                             *)
(***************************************************************************)
\* script.StateName(state, name): the name with its ecosystem
StateName(state, name) ==
    IF Char(name, 1) = "@" THEN name ELSE "@" \o Int64ToStr(state) \o name

\* RollbackContract as it would be if the contract's own block stayed in Children
RollbackContractRunKeepsBlock(s, v, name) ==
    IF ~accessContracts(s, {"NewContract", "Import"}) THEN [err |-> "errAccessRollbackContract", vm |-> v]
    ELSE IF StateName(s.EcosystemID, name) \notin DOMAIN v.Objects THEN [err |-> "nil", vm |-> v]
    ELSE CHOOSE r \in
            {[err |-> "nil",
              vm |-> [v EXCEPT
                        !.Children = IF id < Len(v.Children) THEN SubSeq(v.Children, 1, id + 1) ELSE @,
                        !.Objects = [n \in DOMAIN v.Objects \ {StateName(s.EcosystemID, name)} |->
                                        v.Objects[n]]]] :
             id \in {v.ID[v.Objects[StateName(s.EcosystemID, name)]]}} : TRUE

\* VMGetContract finds the contract by its name in vm.Objects; id is the ID of its block
RollbackContractRun(s, v, name) ==
    IF ~accessContracts(s, {"NewContract", "Import"}) THEN [err |-> "errAccessRollbackContract", vm |-> v]
    ELSE IF StateName(s.EcosystemID, name) \notin DOMAIN v.Objects THEN [err |-> "nil", vm |-> v]
    ELSE CHOOSE r \in
            {[err |-> "nil",
              vm |-> [v EXCEPT
                        !.Children = IF id < Len(v.Children) THEN SubSeq(v.Children, 1, id) ELSE @,
                        !.Objects = [n \in DOMAIN v.Objects \ {StateName(s.EcosystemID, name)} |->
                                        v.Objects[n]]]] :
             id \in {v.ID[v.Objects[StateName(s.EcosystemID, name)]]}} : TRUE

\* one call, with a name of the caller's ecosystem, a qualified name or a name no contract has
RollbackContractCall ==
    /\ \E name \in {"Alpha", "Beta", "@2Gamma", "Delta", "Epsilon", "Missing"} :
         \E r \in {RollbackContractRun(sc, vm, name)} :
            /\ vm' = r.vm
            /\ last' = [op |-> "RollbackContract", name |-> name, err |-> r.err]
    /\ calls' = calls + 1
    /\ UNCHANGED <<sc, db, syspar, journal, lang>>

RollbackContract == calls < MaxCalls /\ RollbackContractCall

(***************************************************************************)
(* The VM over a run of contracts compiled and rolled back.                *)
(***************************************************************************)
\* vm.FlushBlock of a new contract: the block is appended to Children, its ID is
\* its place there and Objects maps the contract's name to it
FlushBlock(v, b) ==
    [v EXCEPT !.Children = Append(v.Children, b),
              !.Objects = [n \in DOMAIN v.Objects \cup {BlockInfo(b).Name} |->
                              IF n = BlockInfo(b).Name THEN b ELSE v.Objects[n]],
              !.ID = [c \in DOMAIN v.ID \cup {b} |-> IF c = b THEN Len(v.Children) ELSE v.ID[c]]]

\* a contract whose name the VM does not hold is compiled
Compile ==
    /\ \E b \in BlockIDs \cup NewBlocks :
         /\ BlockInfo(b).Name \notin DOMAIN vm.Objects
         /\ vm' = FlushBlock(vm, b)
         /\ last' = [op |-> "Compile", name |-> BlockInfo(b).Name, err |-> "nil"]
    /\ calls' = calls + 1
    /\ UNCHANGED <<sc, db, syspar, journal, lang>>

InitContracts ==
    /\ \E c \in {"@1NewContract", "@1Import", "@1EditContract"} :
         sc = [Rollback |-> TRUE, VDE |-> FALSE, FullAccess |-> FALSE, SysUpdate |-> FALSE,
               TxContract |-> c, EcosystemID |-> 1]
    /\ InitCommon

NextContracts == calls < MaxContractCalls /\ (Compile \/ RollbackContractCall)

SpecContracts == InitContracts /\ [][NextContracts]_vars

(***************************************************************************)
(* A transaction of any contract that calls the administrative functions.  *)
(***************************************************************************)
TxContracts ==
    {"@1NewEcosystem", "@1EditEcosystemName", "@1NewLang", "@1NewLangJoint", "@1Import",
     "@1EditLang", "@1EditLangJoint", "@1ActivateContract", "@1DeactivateContract",
     "@1NewContract", "@1TransferMoney", "@2NewLang"}

InitAdmin ==
    /\ \E c \in TxContracts, r \in BOOLEAN, v \in BOOLEAN :
         sc = [Rollback |-> r, VDE |-> v, FullAccess |-> FALSE, SysUpdate |-> FALSE,
               TxContract |-> c, EcosystemID |-> 1]
    /\ InitCommon

NextAdmin ==
    \/ CreateEcosystem
    \/ EditEcosysName
    \/ CreateLanguage
    \/ EditLanguage
    \/ Activate
    \/ Deactivate
    \/ RollbackContract

SpecAdmin == InitAdmin /\ [][NextAdmin]_vars

(***************************************************************************)
(* Properties of the administrative functions, checked under SpecAdmin.    *)
(***************************************************************************)
\* the contracts that may call each function
Whitelist(op) ==
    CASE op = "CreateEcosystem" -> {"@1NewEcosystem"}
      [] op = "EditEcosysName" -> {"@1EditEcosystemName"}
      [] op = "CreateLanguage" -> {"@1NewLang", "@1NewLangJoint", "@1Import"}
      [] op = "EditLanguage" -> {"@1EditLang", "@1EditLangJoint", "@1Import"}
      [] op \in {"Activate", "Deactivate"} -> {"@1ActivateContract", "@1DeactivateContract"}
      [] op = "RollbackContract" -> {"@1NewContract", "@1Import"}

\* the error each function returns to a caller that is not allowed
IncorrectCallingContract(op) ==
    CASE op = "CreateEcosystem" -> "CreateEcosystem can be only called from @1NewEcosystem"
      [] op = "EditEcosysName" -> "EditEcosystemName can be only called from @1EditEcosystemName"
      [] op = "CreateLanguage" -> "CreateLanguage can be only called from @1NewLang, @1NewLangJoint, @1Import"
      [] op = "EditLanguage" -> "EditLanguage can be only called from @1EditLang, @1EditLangJoint and @1Import"
      [] op = "Activate" -> "ActivateContract can be only called from @1ActivateContract or @1DeactivateContract"
      [] op = "Deactivate" -> "DeactivateContract can be only called from @1ActivateContract or @1DeactivateContract"
      [] op = "RollbackContract" -> "errAccessRollbackContract"

AdminOps ==
    {"CreateEcosystem", "EditEcosysName", "CreateLanguage", "EditLanguage", "Activate",
     "Deactivate", "RollbackContract"}

\* C2: a call of CreateEcosystem, EditEcosysName, CreateLanguage, EditLanguage,
\* Activate, Deactivate or RollbackContract made while the transaction's contract
\* is not in the function's whitelist returns the function's incorrect calling
\* contract error and changes nothing: not the store, not the journal, not the
\* VM's contracts and active flags, not the call context (sc.Rollback and
\* sc.FullAccess included), not the caches.
C2_WrongCallerChangesNothing ==
    [][(/\ last'.op \in AdminOps
        /\ sc.TxContract \notin Whitelist(last'.op))
       => (/\ last'.err = IncorrectCallingContract(last'.op)
           /\ db' = db
           /\ journal' = journal
           /\ vm' = vm
           /\ sc' = sc
           /\ syspar' = syspar
           /\ lang' = lang)]_vars

\* CreateEcosystem has been refused to @1TransferMoney
C2_Witness ==
    /\ last.op = "CreateEcosystem"
    /\ last.fault = "none"
    /\ sc.TxContract = "@1TransferMoney"
    /\ last.err = "CreateEcosystem can be only called from @1NewEcosystem"
    /\ DOMAIN db["1_ecosystems"] = {"1"}

\* the SysRollback hints of a journal
SysHints(j) == SelectSeq(j, LAMBDA rec : rec.kind = "sys")

\* the hint is of the type and carries the contract id and the state
HintOf(data, type, tblid, state) ==
    /\ Contains(data, "\"Type\": \"" \o type \o "\"")
    /\ Contains(data, "\"Id\": \"" \o Int64ToStr(tblid) \o "\"")
    /\ Contains(data, "\"State\": \"" \o Int64ToStr(state) \o "\"")

\* C5: a call of Activate, Deactivate or CreateEcosystem that returns nil appends
\* exactly one SysRollback hint when sc.VDE is false (of Type ActivateContract or
\* DeactivateContract with the call's contract id and state, or of Type
\* NewEcosystem) and appends no SysRollback hint when sc.VDE is true.
C5_OneHintUnlessVDE ==
    [][(/\ last'.op \in {"Activate", "Deactivate", "CreateEcosystem"}
        /\ last'.err = "nil")
       => IF sc.VDE
          THEN SysHints(journal') = SysHints(journal)
          ELSE /\ Len(SysHints(journal')) = Len(SysHints(journal)) + 1
               /\ SubSeq(SysHints(journal'), 1, Len(SysHints(journal))) = SysHints(journal)
               /\ journal'[Len(journal')].kind = "sys"
               /\ CASE last'.op = "Activate" ->
                         HintOf(journal'[Len(journal')].data, "ActivateContract", last'.tblid, last'.state)
                    [] last'.op = "Deactivate" ->
                         HintOf(journal'[Len(journal')].data, "DeactivateContract", last'.tblid, last'.state)
                    [] last'.op = "CreateEcosystem" ->
                         journal'[Len(journal')].data = "{\"Type\": \"NewEcosystem\"}"]_vars

\* a contract has been deactivated outside VDE and the hint is in the journal
C5_Witness ==
    /\ last.op = "Deactivate"
    /\ last.tblid = 2
    /\ last.err = "nil"
    /\ ~sc.VDE
    /\ ~vm.Active[1]
    /\ Len(SysHints(journal)) = 1

(***************************************************************************)
(* The functions that touch no state.  Each has a specification of its own *)
(* whose initial states hold the arguments of one call in last.in and      *)
(* whose one action makes the call and stores the result in last.out.      *)
(***************************************************************************)
InitPure ==
    /\ sc = [Rollback |-> TRUE, VDE |-> FALSE, FullAccess |-> FALSE, SysUpdate |-> FALSE,
             TxContract |-> "@1TransferMoney", EcosystemID |-> 1]
    /\ journal = <<>>
    /\ vm = InitVM
    /\ lang = InitLang
    /\ calls = 0

(***************************************************************************)
(* Substr(s, off, slen).                                                   *)
(***************************************************************************)
\* the sum of two int64 as the machine computes it
Add64(a, b) == ((a + b + 2 ^ (IntBits - 1)) % (2 ^ IntBits)) - 2 ^ (IntBits - 1)

\* the slice expression s[lo:hi]: a run-time panic unless 0 <= lo <= hi <= len(s)
Slice(s, lo, hi) ==
    IF 0 <= lo /\ lo <= hi /\ hi <= Len(s)
    THEN [panic |-> FALSE, ret |-> IF lo = hi THEN "" ELSE SubSeq(s, lo + 1, hi)]
    ELSE [panic |-> TRUE, ret |-> ""]

\* Substr as it would be with a sum that cannot overflow
SubstrExact(s, off, slen) ==
    IF off < 0 \/ slen < 0 \/ off > Len(s) THEN [panic |-> FALSE, ret |-> ""]
    ELSE IF off + slen > Len(s) THEN Slice(s, off, Len(s))
    ELSE Slice(s, off, off + slen)

\* Substr with the sum off+slen computed in int64
Substr(s, off, slen) ==
    IF off < 0 \/ slen < 0 \/ off > Len(s) THEN [panic |-> FALSE, ret |-> ""]
    ELSE IF Add64(off, slen) > Len(s) THEN Slice(s, off, Len(s))
    ELSE Slice(s, off, Add64(off, slen))

SubstrInts == {0 - 1, 0, 1, 2, 3, 4, 6, MaxInt64 - 1, MaxInt64, MinInt64}

InitSubstr ==
    /\ InitPure
    /\ db = InitDB
    /\ syspar = LoadSyspar(InitDB)
    /\ \E s \in {"", "abc", "hello"}, off \in SubstrInts, slen \in SubstrInts :
         last = [op |-> "Substr", in |-> <<s, off, slen>>, done |-> FALSE,
                 out |-> [panic |-> FALSE, ret |-> ""]]

SubstrCall ==
    /\ calls < MaxCalls
    /\ last' = [last EXCEPT !.done = TRUE, !.out = Substr(last.in[1], last.in[2], last.in[3])]
    /\ calls' = calls + 1
    /\ UNCHANGED <<sc, db, syspar, journal, vm, lang>>

SpecSubstr == InitSubstr /\ [][SubstrCall]_vars

\* C7: Substr(s, off, slen) does not panic for any int64 off and slen; it returns
\* the empty string when off is negative, slen is negative or off is greater than
\* len(s), and otherwise the bytes of s from off up to min(off + slen, len(s)).
C7_SubstrNeverPanics ==
    last.done =>
        /\ ~last.out.panic
        /\ LET s == last.in[1]
               off == last.in[2]
               slen == last.in[3]
               end == IF off + slen < Len(s) THEN off + slen ELSE Len(s)
           IN  last.out.ret = IF off < 0 \/ slen < 0 \/ off > Len(s) \/ off = end THEN ""
                              ELSE SubSeq(s, off + 1, end)

\* Substr("abc", 1, MaxInt64) has panicked
C7_Panicked ==
    /\ last.done
    /\ last.in = <<"abc", 1, MaxInt64>>
    /\ last.out.panic

\* C7, where the sum does not overflow: Substr returns as the claim says.
C7_NoOverflowNoPanic ==
    (last.done /\ (last.in[2] < 0 \/ last.in[3] < 0 \/ last.in[2] + last.in[3] <= MaxInt64)) =>
        /\ ~last.out.panic
        /\ last.out = SubstrExact(last.in[1], last.in[2], last.in[3])

(***************************************************************************)
(* SmartContract.ForSign().                                                *)
(***************************************************************************)
\* ForSign as it would be with MaxSum and PayOver in the other order
ForSignSwapped(tx) ==
    tx.RequestID \o "," \o Int64ToStr(tx.Type) \o "," \o Int64ToStr(tx.Time) \o ","
        \o Int64ToStr(tx.KeyID) \o "," \o Int64ToStr(tx.EcosystemID) \o ","
        \o Int64ToStr(tx.TokenEcosystem) \o "," \o tx.PayOver \o "," \o tx.MaxSum \o ","
        \o Int64ToStr(tx.SignedBy)

\* fmt.Sprintf("%s,%d,%d,%d,%d,%d,%s,%s,%d", ...)
ForSign(tx) ==
    tx.RequestID \o "," \o Int64ToStr(tx.Type) \o "," \o Int64ToStr(tx.Time) \o ","
        \o Int64ToStr(tx.KeyID) \o "," \o Int64ToStr(tx.EcosystemID) \o ","
        \o Int64ToStr(tx.TokenEcosystem) \o "," \o tx.MaxSum \o "," \o tx.PayOver \o ","
        \o Int64ToStr(tx.SignedBy)

\* the envelopes of the model
Envelopes ==
    [RequestID : {"", "r1"}, Type : {1, 258}, Time : {0, 1000}, KeyID : {0 - 5, 7},
     EcosystemID : {1}, TokenEcosystem : {0, 1}, MaxSum : {"1", "1,2"},
     PayOver : {"", "3", "2,3"}, SignedBy : {0, 0 - 9}, Data : {<<>>, <<1, 2>>}]

InitForSign ==
    /\ InitPure
    /\ db = InitDB
    /\ syspar = LoadSyspar(InitDB)
    /\ \E tx \in Envelopes : last = [op |-> "ForSign", in |-> tx, done |-> FALSE, out |-> ""]

ForSignCall ==
    /\ calls < MaxCalls
    /\ last' = [last EXCEPT !.done = TRUE, !.out = ForSign(last.in)]
    /\ calls' = calls + 1
    /\ UNCHANGED <<sc, db, syspar, journal, vm, lang>>

SpecForSign == InitForSign /\ [][ForSignCall]_vars

\* decimal digits with a leading - for a negative number, written without the model's formatter
Decimal(n) ==
    CASE n = 0 -> "0" [] n = 1 -> "1" [] n = 7 -> "7" [] n = 258 -> "258" [] n = 1000 -> "1000"
      [] n = 0 - 5 -> "-5" [] n = 0 - 9 -> "-9"

\* the nine signable fields of an envelope, in order
SignableFields(tx) ==
    <<tx.RequestID, Decimal(tx.Type), Decimal(tx.Time), Decimal(tx.KeyID), Decimal(tx.EcosystemID),
      Decimal(tx.TokenEcosystem), tx.MaxSum, tx.PayOver, Decimal(tx.SignedBy)>>

NoComma(str) == ~Contains(str, ",")

\* C9: ForSign of an envelope is its nine fields RequestID, Type, Time, KeyID,
\* EcosystemID, TokenEcosystem, MaxSum, PayOver, SignedBy, in that order, joined by
\* single commas with the integers in decimal (so that splitting at the commas
\* gives the nine fields back when the strings hold no comma), and it is the same
\* for every value of Data.
C9_ForSignNineFields ==
    last.done =>
        /\ last.out = JoinCommas(SignableFields(last.in))
        /\ (NoComma(last.in.RequestID) /\ NoComma(last.in.MaxSum) /\ NoComma(last.in.PayOver))
              => Split(last.out, ",") = SignableFields(last.in)
        /\ \A data \in {<<>>, <<1, 2>>, <<3>>} : ForSign([last.in EXCEPT !.Data = data]) = last.out

\* an envelope with a payload and a negative key has been rendered
C9_Witness ==
    /\ last.done
    /\ last.in.Data = <<1, 2>>
    /\ last.in.KeyID = 0 - 5
    /\ last.in.MaxSum = "1"
    /\ last.in.PayOver = "3"
    /\ last.out = "r1,258,1000,-5,1,1,1,3,-9"

(***************************************************************************)
(* CheckSignature(i, name).  A signature is a byte string; the signature   *)
(* of a key over a message is the key's byte followed by the bytes of the  *)
(* message, so that it verifies for that key and that message only.        *)
(***************************************************************************)
\* the hex digits: the value of the digit at place d is d - 1, or d - 7 for an upper-case letter
HexDigits == "0123456789abcdefABCDEF"

IsHexDigit(c) == \E d \in 1..22 : SubSeq(HexDigits, d, d) = c

HexVal(c) ==
    CHOOSE v \in 0..15 : \E d \in 1..22 : SubSeq(HexDigits, d, d) = c /\ v = IF d > 16 THEN d - 7 ELSE d - 1

\* hex.DecodeString(s): the bytes of the pairs read before the first character
\* that is no hex digit, with an error for such a character or an odd length
RECURSIVE HexDecodeFrom(_, _, _)
HexDecodeFrom(s, j, acc) ==
    IF j > Len(s)
    THEN IF Len(s) % 2 = 1 THEN [err |-> TRUE, bytes |-> acc] ELSE [err |-> FALSE, bytes |-> acc]
    ELSE IF ~IsHexDigit(SubSeq(s, j - 1, j - 1)) \/ ~IsHexDigit(SubSeq(s, j, j))
    THEN [err |-> TRUE, bytes |-> acc]
    ELSE HexDecodeFrom(s, j + 2,
                       Append(acc, HexVal(SubSeq(s, j - 1, j - 1)) * 16 + HexVal(SubSeq(s, j, j))))

HexDecodeString(s) == HexDecodeFrom(s, 2, <<>>)

\* hex.EncodeToString
RECURSIVE HexEncode(_)
HexEncode(bytes) ==
    IF Len(bytes) = 0 THEN ""
    ELSE SubSeq(HexDigits, (bytes[1] \div 16) + 1, (bytes[1] \div 16) + 1)
            \o SubSeq(HexDigits, (bytes[1] % 16) + 1, (bytes[1] % 16) + 1) \o HexEncode(Tail(bytes))

\* the byte of a character of a message
Alphabet == "0123456789,-abcdefghijklmnopqrstuvwxyz"

ByteOf(c) == CHOOSE k \in 1..Len(Alphabet) : SubSeq(Alphabet, k, k) = c

MessageBytes(msg) == [k \in 1..Len(msg) |-> ByteOf(SubSeq(msg, k, k))]

\* the signature of the key pub over msg
SignBytes(pub, msg) == <<pub>> \o MessageBytes(msg)

\* utils.CheckSign(publicKeys, forSign, signs, true): crypto.CheckSign with the first key
CheckSign(publicKeys, forsign, signs) ==
    IF Len(forsign) = 0 \/ Len(publicKeys) = 0 \/ Len(signs) = 0
    THEN [err |-> TRUE, ok |-> FALSE]
    ELSE [err |-> FALSE, ok |-> signs = SignBytes(publicKeys[1], forsign)]

\* the sign-specs of the model and what json.Unmarshal gives for them
TwoParamSpec ==
    "{\"forsign\":\"\",\"field\":\"\",\"title\":\"t\",\"params\":[{\"name\":\"Recipient\",\"text\":\"r\"},{\"name\":\"Amount\",\"text\":\"a\"}]}"

NoParamSpec == "{\"title\":\"t\",\"params\":[]}"

BrokenSpec == "{\"params\":"

UnmarshalSignSpec(value) ==
    CASE value = TwoParamSpec -> [err |-> FALSE, Params |-> <<"Recipient", "Amount">>]
      [] value = NoParamSpec -> [err |-> FALSE, Params |-> <<>>]
      [] OTHER -> [err |-> TRUE, Params |-> <<>>]

\* script.ParseContract(name): @<ecosystem><name> gives the ecosystem and the name
ContractNameStart(name) ==
    CHOOSE k \in 2..(Len(name) + 1) :
        /\ \A m \in 2..(k - 1) : IsDigit(SubSeq(name, m, m))
        /\ k = Len(name) + 1 \/ ~IsDigit(SubSeq(name, k, k))

ParseContract(name) ==
    IF Char(name, 1) = "@"
    THEN [state |-> StrToInt64(Sub(name, 2, ContractNameStart(name) - 1)),
          name |-> Sub(name, ContractNameStart(name), Len(name))]
    ELSE [state |-> 0, name |-> name]

\* model.Single(`select value from "<pref>_signatures" where name=?`, name).String()
SignatureRow(d, pref, name) ==
    IF pref \o "_signatures" \notin DOMAIN d THEN [err |-> TRUE, value |-> ""]
    ELSE IF \E id \in DOMAIN d[pref \o "_signatures"] : d[pref \o "_signatures"][id]["name"] = name
    THEN [err |-> FALSE,
          value |-> d[pref \o "_signatures"][CHOOSE id \in DOMAIN d[pref \o "_signatures"] :
                                               d[pref \o "_signatures"][id]["name"] = name]["value"]]
    ELSE [err |-> FALSE, value |-> ""]

\* uint64(n) of an int64
Uint64(n) == IF n < 0 THEN n + 2 ^ IntBits ELSE n

\* the loop over sign.Params as it would be if a param that is nil were skipped
RECURSIVE ForsignParamsSkip(_, _, _)
ForsignParamsSkip(i, params, forsign) ==
    IF Len(params) = 0 THEN forsign
    ELSE ForsignParamsSkip(i, Tail(params),
            IF params[1] \in DOMAIN i.vals THEN forsign \o "," \o i.vals[params[1]] ELSE forsign)

\* the loop over sign.Params: each appends a comma and the value, the empty string
\* for a value that is nil
RECURSIVE ForsignParams(_, _, _)
ForsignParams(i, params, forsign) ==
    IF Len(params) = 0 THEN forsign
    ELSE ForsignParams(i, Tail(params),
            forsign \o "," \o (IF params[1] \in DOMAIN i.vals THEN i.vals[params[1]] ELSE ""))

\* with the decoded signature and the decoded sign-spec
CheckSignatureVerify(i, hexsign, sign) ==
    IF Len(hexsign.bytes) = 0 \/ hexsign.err THEN "wrong signature"
    ELSE IF sign.err THEN "JSONUnmarshallError"
    ELSE CHOOSE r \in
            {IF CheckSign(i.sc.PublicKeys, forsign, hexsign.bytes).err THEN "CheckSignError"
             ELSE IF ~CheckSign(i.sc.PublicKeys, forsign, hexsign.bytes).ok
             THEN "incorrect signature " \o forsign
             ELSE "nil" :
             forsign \in {ForsignParams(i, sign.Params,
                                        FormatUint(Uint64(i.time)) \o "," \o FormatUint(Uint64(i.key_id)))}} : TRUE

\* with the row of the signatures table
CheckSignatureRow(i, row) ==
    IF row.err THEN "DBError"
    ELSE IF Len(row.value) = 0 THEN "nil"
    ELSE CheckSignatureVerify(i, HexDecodeString(i.Signature), UnmarshalSignSpec(row.value))

CheckSignature(d, i, name) ==
    CheckSignatureRow(i, SignatureRow(d, Int64ToStr(ParseContract(name).state), ParseContract(name).name))

\* the store with the signatures table of ecosystem 1 holding the sign-spec of Transfer
SignaturesDB(value) ==
    [t \in DOMAIN InitDB \cup {"1_signatures"} |->
        IF t # "1_signatures" THEN InitDB[t]
        ELSE IF value = "" THEN <<>>
        ELSE [id \in {"1"} |-> [id |-> "1", name |-> "Transfer", value |-> value]]]

\* the parameters a transaction carries
SignVals ==
    {[p \in {"Recipient", "Amount"} |-> IF p = "Recipient" THEN "7" ELSE "100"],
     [p \in {"Amount"} |-> "100"]}

\* the messages a co-signer may have signed for a transaction
SignedMessages(time, key_id, vals) ==
    {JoinCommas(<<FormatUint(Uint64(time)), FormatUint(Uint64(key_id))>>),
     JoinCommas(<<FormatUint(Uint64(time)), FormatUint(Uint64(key_id)),
                  IF "Recipient" \in DOMAIN vals THEN vals["Recipient"] ELSE "", vals["Amount"]>>),
     JoinCommas(<<FormatUint(Uint64(time)), FormatUint(Uint64(key_id)), vals["Amount"]>>),
     JoinCommas(<<Int64ToStr(time), Int64ToStr(key_id),
                  IF "Recipient" \in DOMAIN vals THEN vals["Recipient"] ELSE "", vals["Amount"]>>)}

\* the Signature fields of the model
Signatures(time, key_id, vals) ==
    {HexEncode(SignBytes(10, m)) : m \in SignedMessages(time, key_id, vals)}
        \cup {HexEncode(SignBytes(11, m)) : m \in SignedMessages(time, key_id, vals)}
        \cup {"", "zz", "0a0", "0A0B", "0a0g"}

InitSign ==
    /\ InitPure
    /\ syspar = LoadSyspar(InitDB)
    /\ \E value \in {"", TwoParamSpec, NoParamSpec, BrokenSpec} : db = SignaturesDB(value)
    /\ \E key_id \in {5, 0 - 3}, vals \in SignVals, keys \in {<<>>, <<10>>, <<11, 10>>} :
         \E sig \in Signatures(1000, key_id, vals) :
            last = [op |-> "CheckSignature",
                    in |-> [Signature |-> sig, key_id |-> key_id, time |-> 1000, vals |-> vals,
                            sc |-> [PublicKeys |-> keys], name |-> "@1Transfer"],
                    done |-> FALSE, out |-> ""]

CheckSignatureCall ==
    /\ calls < MaxCalls
    /\ last' = [last EXCEPT !.done = TRUE, !.out = CheckSignature(db, last.in, last.in.name)]
    /\ calls' = calls + 1
    /\ UNCHANGED <<sc, db, syspar, journal, vm, lang>>

SpecSign == InitSign /\ [][CheckSignatureCall]_vars

\* the text is an even number of hex digits
IsHexString(str) == Len(str) % 2 = 0 /\ \A k \in 1..Len(str) : IsHexDigit(SubSeq(str, k, k))

\* the sign-spec row of the contract, "" when it has none
SignSpecOf(d) == IF d["1_signatures"] = <<>> THEN "" ELSE d["1_signatures"]["1"]["value"]

\* time,key_id followed by ,value for each param of the sign-spec, "" for a missing one
SignedString(i, params) ==
    JoinCommas(<<FormatUint(Uint64(i.time)), FormatUint(Uint64(i.key_id))>>
                 \o [k \in 1..Len(params) |->
                        IF params[k] \in DOMAIN i.vals THEN i.vals[params[k]] ELSE ""])

\* C8: when the contract has a sign-spec row, CheckSignature returns nil only if
\* the Signature decodes from hex to a non-empty byte string that verifies, against
\* the transaction's first public key, over time,key_id (as unsigned decimals)
\* followed by ,value for each param of the sign-spec in order, a missing param
\* giving the empty string; an empty or non-hex Signature returns wrong signature
\* and a signature that does not verify returns incorrect signature.  When the
\* contract has no sign-spec row CheckSignature returns nil.
C8_SignatureChecked ==
    last.done =>
        IF SignSpecOf(db) = "" THEN last.out = "nil"
        ELSE /\ last.out = "nil" =>
                  /\ last.in.Signature # ""
                  /\ IsHexString(last.in.Signature)
                  /\ Len(last.in.sc.PublicKeys) > 0
                  /\ HexDecodeString(last.in.Signature).bytes =
                        SignBytes(last.in.sc.PublicKeys[1],
                                  SignedString(last.in, UnmarshalSignSpec(SignSpecOf(db)).Params))
             /\ (last.in.Signature = "" \/ ~IsHexString(last.in.Signature)) => last.out = "wrong signature"
             /\ (/\ last.in.Signature # ""
                 /\ IsHexString(last.in.Signature)
                 /\ ~UnmarshalSignSpec(SignSpecOf(db)).err
                 /\ Len(last.in.sc.PublicKeys) > 0
                 /\ HexDecodeString(last.in.Signature).bytes #
                        SignBytes(last.in.sc.PublicKeys[1],
                                  SignedString(last.in, UnmarshalSignSpec(SignSpecOf(db)).Params)))
                => HasPrefix(last.out, "incorrect signature")

\* a signature over a message with a missing param and a negative key has been accepted
C8_Witness ==
    /\ last.done
    /\ last.out = "nil"
    /\ SignSpecOf(db) = TwoParamSpec
    /\ "Recipient" \notin DOMAIN last.in.vals
    /\ last.in.key_id = 0 - 3
    /\ last.in.sc.PublicKeys = <<10>>

(***************************************************************************)
(* getCostP(name).                                                         *)
(***************************************************************************)
\* the extendCostSysParams table
CostTable ==
    << <<"AddressToId", "extend_cost_address_to_id">>,
       <<"IdToAddress", "extend_cost_id_to_address">>,
       <<"NewState", "extend_cost_new_state">>,
       <<"Sha256", "extend_cost_sha256">>,
       <<"PubToID", "extend_cost_pub_to_id">>,
       <<"EcosysParam", "extend_cost_ecosys_param">>,
       <<"SysParamString", "extend_cost_sys_param_string">>,
       <<"SysParamInt", "extend_cost_sys_param_int">>,
       <<"SysFuel", "extend_cost_sys_fuel">>,
       <<"ValidateCondition", "extend_cost_validate_condition">>,
       <<"EvalCondition", "extend_cost_eval_condition">>,
       <<"HasPrefix", "extend_cost_has_prefix">>,
       <<"Contains", "extend_cost_contains">>,
       <<"Replace", "extend_cost_replace">>,
       <<"Join", "extend_cost_join">>,
       <<"Size", "extend_cost_size">>,
       <<"Substr", "extend_cost_substr">>,
       <<"Eval", "extend_cost_eval">>,
       <<"Len", "extend_cost_len">>,
       <<"Activate", "extend_cost_activate">>,
       <<"Deactivate", "extend_cost_deactivate">>,
       <<"CreateEcosystem", "extend_cost_create_ecosystem">>,
       <<"TableConditions", "extend_cost_table_conditions">>,
       <<"CreateTable", "extend_cost_create_table">>,
       <<"PermTable", "extend_cost_perm_table">>,
       <<"ColumnCondition", "extend_cost_column_condition">>,
       <<"CreateColumn", "extend_cost_create_column">>,
       <<"PermColumn", "extend_cost_perm_column">>,
       <<"JSONToMap", "extend_cost_json_to_map">>,
       <<"GetContractByName", "extend_cost_contract_by_name">>,
       <<"GetContractById", "extend_cost_contract_by_id">> >>

extendCostSysParams ==
    [n \in {CostTable[k][1] : k \in 1..Len(CostTable)} |->
        CostTable[CHOOSE k \in 1..Len(CostTable) : CostTable[k][1] = n][2]]

\* syspar.HasSys(name) and syspar.SysInt64(name)
HasSys(sp, name) == name \in DOMAIN sp

SysInt64(sp, name) == StrToInt64(sp[name])

\* getCostP as it would be if it built the parameter's name from the function's
getCostPByName(sp, name) ==
    IF HasSys(sp, "extend_cost_" \o name) THEN SysInt64(sp, "extend_cost_" \o name) ELSE 0 - 1

\* getCostP(name), sp being the parameters syspar holds
getCostP(sp, name) ==
    IF name \in DOMAIN extendCostSysParams /\ HasSys(sp, extendCostSysParams[name])
    THEN SysInt64(sp, extendCostSysParams[name])
    ELSE 0 - 1

\* the names getCostP is asked about: the table's and those of host functions without an entry
HostFunctions == DOMAIN extendCostSysParams \cup {"DBInsert", "DBUpdateExt", "Split"}

\* the cost parameters a node may hold, with their values
CostParams ==
    << <<"extend_cost_sha256", "50">>, <<"extend_cost_Sha256", "51">>,
       <<"extend_cost_contract_by_name", "20">>, <<"extend_cost_get_contract_by_name", "21">>,
       <<"extend_cost_GetContractByName", "22">>, <<"extend_cost_DBInsert", "30">>,
       <<"extend_cost_db_insert", "31">>, <<"extend_cost_substr", "abc">> >>

SysparWith(keys) ==
    [n \in {CostParams[k][1] : k \in keys} |->
        CostParams[CHOOSE k \in keys : CostParams[k][1] = n][2]]

CostKeySets == {{}, {1}, {2}, {1, 2}, {3}, {4, 5}, {3, 4, 5}, {6, 7}, {8}, 1..Len(CostParams)}

InitCost ==
    /\ InitPure
    /\ db = InitDB
    /\ \E keys \in CostKeySets : syspar = SysparWith(keys)
    /\ \E name \in HostFunctions : last = [op |-> "getCostP", in |-> name, done |-> FALSE, out |-> 0]

getCostPCall ==
    /\ calls < MaxCalls
    /\ last' = [last EXCEPT !.done = TRUE, !.out = getCostP(syspar, last.in)]
    /\ calls' = calls + 1
    /\ UNCHANGED <<sc, db, syspar, journal, vm, lang>>

SpecCost == InitCost /\ [][getCostPCall]_vars

\* the parameter the phrase extend_cost_<name> names for a function: the snake-case
\* form of the function's name after the prefix
CostParamOf(name) ==
    CASE name = "GetContractByName" -> "extend_cost_get_contract_by_name"
      [] name = "GetContractById" -> "extend_cost_get_contract_by_id"
      [] name = "DBInsert" -> "extend_cost_db_insert"
      [] name = "DBUpdateExt" -> "extend_cost_db_update_ext"
      [] name = "Split" -> "extend_cost_split"
      [] OTHER -> extendCostSysParams[name]

\* C10 as stated: getCostP(name) is the value of the system parameter
\* extend_cost_<name> whenever that parameter exists and -1 otherwise, for every
\* host function name, those without an entry in extendCostSysParams and those
\* whose entry is not extend_cost_ followed by the function's name included.
C10_CostOfNamedParam ==
    last.done =>
        last.out = IF CostParamOf(last.in) \in DOMAIN syspar
                   THEN StrToInt64(syspar[CostParamOf(last.in)])
                   ELSE 0 - 1

\* C10 amended: getCostP(name) is the value of the system parameter that
\* extendCostSysParams maps name to, when name has an entry in the table and that
\* parameter exists, and -1 otherwise.
C10_CostOfTableEntry ==
    last.done =>
        last.out = IF \E k \in 1..Len(CostTable) : CostTable[k][1] = last.in /\ CostTable[k][2] \in DOMAIN syspar
                   THEN StrToInt64(syspar[CostTable[CHOOSE k \in 1..Len(CostTable) : CostTable[k][1] = last.in][2]])
                   ELSE 0 - 1

\* GetContractByName costs what extend_cost_contract_by_name says, not what
\* extend_cost_get_contract_by_name says
C10_Witness ==
    /\ last.done
    /\ last.in = "GetContractByName"
    /\ DOMAIN syspar = {"extend_cost_contract_by_name", "extend_cost_get_contract_by_name",
                        "extend_cost_GetContractByName"}
    /\ last.out = 20

(***************************************************************************)
(* The order of UpdateSysParam's steps, checked under Spec.                *)
(***************************************************************************)
\* the conditions column of the parameter's row, "" when there is no such row
StoredConditions(d, name) ==
    IF MatchingIds(d, SysParamTable, "name", name) = {} THEN ""
    ELSE d[SysParamTable][CHOOSE id \in MatchingIds(d, SysParamTable, "name", name) : TRUE]["conditions"]

\* the call left the store, the journal, the cache and the call context alone
\* and made no write and no refresh
SysParamUntouched(l) == l.upd = 0 /\ ~l.refresh

\* C11: a call of UpdateSysParam that has read the parameter's row, when the
\* stored conditions are non-empty and evaluate to false, returns errAccessDenied,
\* and when they fail to evaluate returns the evaluation error, whatever the value
\* and the new conditions are (a value out of the domain is not reported), with no
\* write of the row, no journal record, no refresh of syspar and sc.SysUpdate as
\* it was; sc.SysUpdate changes only to true and only in a call that wrote the
\* row, refreshed syspar and returned nil.
C11_AuthorizationFirst ==
    [][(last'.op = "UpdateSysParam" /\ last'.fault # "get")
       => (/\ (StoredConditions(db, last'.name) # ""
                 /\ ~EvalIf(StoredConditions(db, last'.name)).err
                 /\ ~EvalIf(StoredConditions(db, last'.name)).ret)
               => (/\ last'.err = "AccessDenied"
                   /\ SysParamUntouched(last')
                   /\ db' = db /\ journal' = journal /\ syspar' = syspar /\ sc' = sc)
           /\ (StoredConditions(db, last'.name) # ""
                 /\ EvalIf(StoredConditions(db, last'.name)).err)
               => (/\ last'.err = "EvalError"
                   /\ SysParamUntouched(last')
                   /\ db' = db /\ journal' = journal /\ syspar' = syspar /\ sc' = sc)
           /\ sc'.SysUpdate # sc.SysUpdate
               => (/\ sc'.SysUpdate
                   /\ last'.err = "nil"
                   /\ last'.upd = 1
                   /\ last'.refresh
                   /\ syspar' = LoadSyspar(db')))]_vars

\* max_indexes, whose conditions are false, has been refused a value out of its domain
C11_Witness ==
    /\ last.op = "UpdateSysParam"
    /\ last.name = "max_indexes"
    /\ last.value = "0"
    /\ last.err = "AccessDenied"
    /\ ~sc.SysUpdate
    /\ db = InitDB
    /\ journal = <<>>

(***************************************************************************)
(* The journal of CreateEcosystem, checked under SpecAdmin.                *)
(***************************************************************************)
\* the table holds the row id with the value v in the column c
HasRow(d, table, id, c, v) ==
    /\ table \in DOMAIN d
    /\ id \in DOMAIN d[table]
    /\ d[table][id][c] = v

\* C12: a call of CreateEcosystem that returns nil outside VDE has inserted the
\* default page, the default menu and the founder's key into the tables of the
\* new ecosystem (tables no access rule opens, so with sc.FullAccess set) without
\* a journal record, whatever sc.Rollback was at entry, and has then inserted the
\* row of 1_ecosystems with sc.FullAccess false and sc.Rollback true: the journal
\* gains exactly two records, the row record of 1_ecosystems and after it the
\* NewEcosystem SysRollback hint.
C12_BootstrapNotJournaled ==
    [][(/\ last'.op = "CreateEcosystem"
        /\ last'.err = "nil"
        /\ ~sc.VDE)
       => (/\ last'.ret = GetNextID(db, "1_ecosystems")
           /\ HasRow(db', NextID(db, "1_ecosystems") \o "_pages", "1", "name", "default_page")
           /\ HasRow(db', NextID(db, "1_ecosystems") \o "_menu", "1", "name", "default_menu")
           /\ HasRow(db', NextID(db, "1_ecosystems") \o "_keys", Int64ToStr(last'.wallet), "pub",
                     SelectPub(db, last'.wallet))
           /\ HasRow(db', "1_ecosystems", NextID(db, "1_ecosystems"), "name", "eco")
           /\ Len(journal') = Len(journal) + 2
           /\ SubSeq(journal', 1, Len(journal)) = journal
           /\ journal'[Len(journal) + 1] = RollbackRecord("1_ecosystems", NextID(db, "1_ecosystems"), <<>>)
           /\ journal'[Len(journal) + 2] = [kind |-> "sys", data |-> "{\"Type\": \"NewEcosystem\"}"]
           /\ ~sc'.FullAccess
           /\ sc'.Rollback)]_vars

\* an ecosystem has been created by a transaction that had journaling on
C12_Witness ==
    /\ last.op = "CreateEcosystem"
    /\ last.err = "nil"
    /\ last.ret = 2
    /\ ~sc.VDE
    /\ HasRow(db, "2_pages", "1", "menu", "default_menu")
    /\ HasRow(db, "2_keys", "1", "pub", "0a")
    /\ Len(journal) = 2
    /\ journal[1].kind = "row" /\ journal[1].table = "1_ecosystems"
    /\ journal[2].kind = "sys"

(***************************************************************************)
(* The columns UpdateSysParam writes, checked under Spec.                  *)
(***************************************************************************)
\* the id of the parameter's row
ParamId(d, name) == CHOOSE id \in DOMAIN d[SysParamTable] : d[SysParamTable][id]["name"] = name

\* C13: on a parameter that exists and that the caller may write, a call of
\* UpdateSysParam with value and conditions both empty returns the empty value
\* and condition error, makes no write and no refresh and leaves the store, the
\* journal, the cache and the call context as they were; a call with only the
\* value that writes changes the value column of the parameter's row and nothing
\* else in the store, and a call with only the conditions that writes changes the
\* conditions column and nothing else.
C13_OnlyTheGivenColumn ==
    [][(/\ last'.op = "UpdateSysParam"
        /\ last'.fault # "get"
        /\ ParamWritable(db, last'.name))
       => (/\ (last'.value = "" /\ last'.conditions = "")
               => (/\ last'.err = "EmptyObject"
                   /\ SysParamUntouched(last')
                   /\ db' = db /\ journal' = journal /\ syspar' = syspar /\ sc' = sc)
           /\ (last'.value # "" /\ last'.conditions = "" /\ Wrote(last'))
               => db' = [db EXCEPT ![SysParamTable][ParamId(db, last'.name)]["value"] = last'.value]
           /\ (last'.value = "" /\ last'.conditions # "" /\ Wrote(last'))
               => db' = [db EXCEPT ![SysParamTable][ParamId(db, last'.name)]["conditions"] =
                                      last'.conditions])]_vars

\* the conditions of gap_between_blocks have been written and its value kept
C13_Witness ==
    /\ last.op = "UpdateSysParam"
    /\ last.name = "gap_between_blocks"
    /\ last.value = ""
    /\ last.conditions = "false"
    /\ last.err = "nil"
    /\ ParamValue(db, "gap_between_blocks") = "2"
    /\ StoredConditions(db, "gap_between_blocks") = "false"

(***************************************************************************)
(* RollbackContract and the VM's tables, checked under SpecContracts.      *)
(***************************************************************************)
\* the name the VM knows the contract by: a name without @ is of the caller's ecosystem
FullName(s, name) == IF Char(name, 1) = "@" THEN name ELSE "@" \o Int64ToStr(s.EcosystemID) \o name

\* C14: a call of RollbackContract from @1NewContract or @1Import returns nil;
\* when the VM holds a contract of that name, the name is gone from vm.Objects
\* afterwards, every other name stays, and vm.Children is cut to its first ID
\* entries if the ID of the contract's block is less than len(vm.Children) and is
\* left as it was otherwise; when the VM holds no contract of that name the VM is
\* left as it was.
C14_RollbackContractEffect ==
    [][(/\ last'.op = "RollbackContract"
        /\ sc.TxContract \in {"@1NewContract", "@1Import"})
       => (/\ last'.err = "nil"
           /\ IF FullName(sc, last'.name) \in DOMAIN vm.Objects
              THEN /\ DOMAIN vm'.Objects = DOMAIN vm.Objects \ {FullName(sc, last'.name)}
                   /\ \A n \in DOMAIN vm'.Objects : vm'.Objects[n] = vm.Objects[n]
                   /\ vm'.Children =
                        IF vm.ID[vm.Objects[FullName(sc, last'.name)]] < Len(vm.Children)
                        THEN SubSeq(vm.Children, 1, vm.ID[vm.Objects[FullName(sc, last'.name)]])
                        ELSE vm.Children
                   /\ vm'.Active = vm.Active
                   /\ vm'.ID = vm.ID
              ELSE vm' = vm)]_vars

\* Beta, the second of three contracts, has been rolled back: Children is cut to one block
C14_Witness ==
    /\ last.op = "RollbackContract"
    /\ last.name = "Beta"
    /\ last.err = "nil"
    /\ vm.Children = <<0>>
    /\ "@1Beta" \notin DOMAIN vm.Objects
    /\ "@1Alpha" \in DOMAIN vm.Objects

\* C18: every contract name in vm.Objects refers to a block whose ID is an index
\* of vm.Children, ID < len(vm.Children), after any run of contracts compiled and
\* rolled back.
C18_ObjectsWithinChildren ==
    \A n \in DOMAIN vm.Objects : vm.ID[vm.Objects[n]] < Len(vm.Children)

\* Alpha, the first of three contracts, has been rolled back: Children is empty
\* and vm.Objects still names Beta and Gamma, whose IDs are 1 and 2
C18_DanglingObjects ==
    /\ last.op = "RollbackContract"
    /\ last.name = "Alpha"
    /\ last.err = "nil"
    /\ Len(vm.Children) = 0
    /\ DOMAIN vm.Objects = {"@1Beta", "@2Gamma"}
    /\ vm.ID[vm.Objects["@1Beta"]] = 1

(***************************************************************************)
(* What an error return leaves behind, checked under SpecAdmin.            *)
(***************************************************************************)
\* C15: when a call of CreateEcosystem returns, with nil or with any error,
\* sc.FullAccess is false and sc.Rollback is what it was at entry.
C15_FlagsRestored ==
    [][last'.op = "CreateEcosystem" => (~sc'.FullAccess /\ sc'.Rollback = sc.Rollback)]_vars

\* the insert of the default menu has failed and CreateEcosystem has returned
\* the error with the access checks bypassed and the journal off
C15_FlagsLeftAltered ==
    /\ last.op = "CreateEcosystem"
    /\ last.fault = "menu"
    /\ last.err = "DBError"
    /\ sc.FullAccess
    /\ ~sc.Rollback

\* C15, the paths that return before line 455: the flags are as they were.
C15_EarlyReturnsKeepFlags ==
    [][(last'.op = "CreateEcosystem" /\ last'.fault \in {"get", "nofounder", "nextid", "schema", "load"})
       => sc' = sc]_vars

\* C16: a call of Activate or Deactivate that returns an error leaves the Active
\* flag of every contract of the VM as it was.
C16_ErrorKeepsActive ==
    [][(last'.op \in {"Activate", "Deactivate"} /\ last'.err # "nil") => vm'.Active = vm.Active]_vars

\* SysRollback has failed, Activate has returned the error and the contract of
\* table 1, which was not active, is active
C16_ActivatedOnError ==
    /\ last.op = "Activate"
    /\ last.tblid = 1 /\ last.state = 1
    /\ last.fault = "sysrollback"
    /\ last.err = "DBError"
    /\ ~InitVM.Active[0]
    /\ vm.Active[0]
    /\ journal = <<>>

\* C16, the error of the caller's test: the flags are as they were.
C16_WrongCallerKeepsActive ==
    [][(/\ last'.op \in {"Activate", "Deactivate"}
        /\ sc.TxContract \notin {"@1ActivateContract", "@1DeactivateContract"})
       => (last'.err # "nil" /\ vm' = vm)]_vars

(***************************************************************************)
(* ForSign over pairs of envelopes, checked under SpecForSign.             *)
(***************************************************************************)
\* the two envelopes have the same nine signable fields
SameSignable(a, b) == SignableFields(a) = SignableFields(b)

\* C17: an envelope that differs from the one rendered in at least one of
\* RequestID, Type, Time, KeyID, EcosystemID, TokenEcosystem, MaxSum, PayOver,
\* SignedBy has a different ForSign string, whatever the strings hold.
C17_ForSignInjective ==
    last.done => \A tx \in Envelopes : ~SameSignable(tx, last.in) => ForSign(tx) # last.out

\* MaxSum "1,2" with PayOver "3" has been rendered as MaxSum "1" with PayOver "2,3" is
C17_Collision ==
    /\ last.done
    /\ last.in.MaxSum = "1,2"
    /\ last.in.PayOver = "3"
    /\ ~SameSignable([last.in EXCEPT !.MaxSum = "1", !.PayOver = "2,3"], last.in)
    /\ ForSign([last.in EXCEPT !.MaxSum = "1", !.PayOver = "2,3"]) = last.out

\* C17, among the envelopes whose strings hold no comma: a different envelope has
\* a different ForSign string.
C17_InjectiveWithoutCommas ==
    (last.done /\ NoComma(last.in.RequestID) /\ NoComma(last.in.MaxSum) /\ NoComma(last.in.PayOver))
        => \A tx \in Envelopes :
              (/\ NoComma(tx.RequestID) /\ NoComma(tx.MaxSum) /\ NoComma(tx.PayOver)
               /\ ~SameSignable(tx, last.in))
              => ForSign(tx) # last.out

====
